---- MODULE Spec2Model ----
(***************************************************************************)
(* GEON format engine (geon-js): the text -> model parser, the model ->    *)
(* text generator and the data model they share.                           *)
(*                                                                         *)
(* Text is a sequence of atoms.  An atom stands for one character (" ",    *)
(* ":", "-", ",", the line feed) or for a run of characters that holds     *)
(* none of those (a word, a numeric literal).  A string of the program is  *)
(* a sequence of atoms; trimming, searching and splitting work on atoms    *)
(* exactly as the code's string methods work on characters.                *)
(*                                                                         *)
(* A JavaScript value is a record [t, v]: t is its type tag, v its payload *)
(*   "str"   v = the string (a sequence of atoms)                          *)
(*   "list"  v = the array's elements                                      *)
(*   "map"   v = the object's own properties, <<key, value>> pairs in      *)
(*               insertion order                                           *)
(*   "null"  v = <<>>                                                      *)
(*   "coord" v = <<lat, lon>>, "extent" v = <<north, south, east, west>>   *)
(*   "place" v = the GeonPlace record                                      *)
(*   "throw" v = <<>>: the call ended with an exception                    *)
(*   "num"   v = the number, an integer counting tenths (12 is 1.2)        *)
(*   "nan"   v = <<>>: the number NaN                                      *)
(***************************************************************************)
EXTENDS Integers, Sequences, FiniteSets, TLC

SP == " "
CO == ":"
DASH == "-"
COMMA == ","
NL == "\n"

RStr(s) == [t |-> "str", v |-> s]
RList(items) == [t |-> "list", v |-> items]
RMap(kv) == [t |-> "map", v |-> kv]
Null == [t |-> "null", v |-> <<>>]
Throw == [t |-> "throw", v |-> <<>>]

W(a) == RStr(<<a>>)
EmptyList == RList(<<>>)
EmptyMap == RMap(<<>>)

IsStr(x) == x.t = "str"
IsList(x) == x.t = "list"
IsMap(x) == x.t = "map"

\* JavaScript truthiness of a value: the empty string, null, undefined, 0 and
\* NaN are falsy; every object, the empty array included, is truthy.
Truthy(x) ==
    ~(\/ x.t \in {"null", "nan"}
      \/ x.t = "str" /\ x.v = <<>>
      \/ x.t = "num" /\ x.v = 0)

(***************************************************************************)
(* Objects: property lookup and assignment.                                *)
(***************************************************************************)
RECURSIVE KvIndex(_, _, _)
KvIndex(kv, k, i) ==
    IF i > Len(kv) THEN 0
    ELSE IF kv[i][1] = k THEN i
    ELSE KvIndex(kv, k, i + 1)

HasKey(m, k) == KvIndex(m.v, k, 1) # 0

\* m[k]: the property's value, undefined (modelled by Null, equally falsy) when absent.
Get(m, k) ==
    IF m.t = "map" /\ HasKey(m, k) THEN m.v[KvIndex(m.v, k, 1)][2] ELSE Null

\* m[k] = val: a new key is appended, an existing key keeps its position.
MapSet(m, k, val) ==
    IF HasKey(m, k)
    THEN RMap([m.v EXCEPT ![KvIndex(m.v, k, 1)] = <<k, val>>])
    ELSE RMap(Append(m.v, <<k, val>>))

(***************************************************************************)
(* String helpers.                                                         *)
(***************************************************************************)
RECURSIVE TrimStart(_)
TrimStart(s) ==
    IF s = <<>> THEN s
    ELSE IF Head(s) = SP THEN TrimStart(Tail(s))
    ELSE s

RECURSIVE TrimEnd(_)
TrimEnd(s) ==
    IF s = <<>> THEN s
    ELSE IF s[Len(s)] = SP THEN TrimEnd(SubSeq(s, 1, Len(s) - 1))
    ELSE s

Trim(s) == TrimEnd(TrimStart(s))

\* s.indexOf(a), 0-based, -1 when a does not occur.
RECURSIVE IndexFrom(_, _, _)
IndexFrom(s, a, i) ==
    IF i > Len(s) THEN -1
    ELSE IF s[i] = a THEN i - 1
    ELSE IndexFrom(s, a, i + 1)

IndexOf(s, a) == IndexFrom(s, a, 1)

StartsWithMarker(s) == Len(s) >= 2 /\ s[1] = DASH /\ s[2] = SP

indentLevel(line) == Len(line) - Len(TrimStart(line))

NoKV == [ok |-> FALSE, key |-> <<>>, value |-> <<>>]

splitKeyValue(line) ==
    LET stripped == Trim(line)
        idx == IndexOf(stripped, CO)
    IN  IF idx = -1 THEN NoKV
        ELSE [ok |-> TRUE,
              key |-> Trim(SubSeq(stripped, 1, idx)),
              value |-> Trim(SubSeq(stripped, idx + 2, Len(stripped)))]

(***************************************************************************)
(* Tokenizer.                                                              *)
(***************************************************************************)
\* text.split('\n'): the pieces between line feeds, the last one included.
SplitLines(text) ==
    LET nls == {i \in 1..Len(text) : text[i] = NL}
        \* position of the k-th line feed; 0 before the first piece, Len + 1 after the last
        cut(k) == IF k = 0 THEN 0
                  ELSE IF k > Cardinality(nls) THEN Len(text) + 1
                  ELSE CHOOSE p \in nls : Cardinality({q \in nls : q < p}) = k - 1
    IN  [k \in 1..(Cardinality(nls) + 1) |->
            SubSeq(text, cut(k - 1) + 1, cut(k) - 1)]

tokenizeLines(text) ==
    LET all == SplitLines(text)
        keep == SelectSeq(all, LAMBDA l : Len(Trim(l)) > 0)
    IN  [k \in 1..Len(keep) |->
            [indent |-> indentLevel(keep[k]), content |-> Trim(keep[k])]]

(***************************************************************************)
(* Block builder.  Indices are the code's 0-based indices: the code's      *)
(* lines[i] is lines[i + 1] here.                                          *)
(***************************************************************************)
\* a faulty variant of ScanDeeper: the scan also runs over the following items
\* of the list, so that an item's region swallows its siblings
RECURSIVE ScanDeeperSiblings(_, _, _)
ScanDeeperSiblings(lines, j, childIndent) ==
    IF j < Len(lines) /\ lines[j + 1].indent >= childIndent
    THEN ScanDeeperSiblings(lines, j + 1, childIndent)
    ELSE j

\* the inner scan `while (j < lines.length && lines[j].indent > childIndent) j++`
RECURSIVE ScanDeeper(_, _, _)
ScanDeeper(lines, j, childIndent) ==
    IF j < Len(lines) /\ lines[j + 1].indent > childIndent
    THEN ScanDeeper(lines, j + 1, childIndent)
    ELSE j

ChildStep == 2

RECURSIVE parseBlockLoop(_, _, _, _)
RECURSIVE listLoop(_, _, _, _)
RECURSIVE collectChildren(_, _, _)

parseBlock(lines, start, baseIndent) ==
    parseBlockLoop(lines, start, baseIndent, EmptyMap)

\* a faulty variant of parseBlockLoop: the loop stops at a line indented deeper
\* than the block, where the code steps over it
RECURSIVE parseBlockLoopStop(_, _, _, _)
parseBlockLoopStop(lines, i, baseIndent, result) ==
    IF i >= Len(lines) THEN [val |-> result, next |-> i]
    ELSE
      LET line == lines[i + 1] IN
      IF line.indent < baseIndent THEN [val |-> result, next |-> i]
      ELSE IF line.indent > baseIndent
           THEN [val |-> result, next |-> i]
      ELSE
        LET kv == splitKeyValue(line.content) IN
        IF kv.ok
        THEN IF kv.value # <<>>
             THEN parseBlockLoopStop(lines, i + 1, baseIndent,
                                 MapSet(result, kv.key, RStr(kv.value)))
             ELSE LET c == collectChildren(lines, i + 1, baseIndent + ChildStep)
                  IN  parseBlockLoopStop(lines, c.next, baseIndent,
                                     MapSet(result, kv.key, c.val))
        ELSE parseBlockLoopStop(lines, i + 1, baseIndent, result)

parseBlockLoop(lines, i, baseIndent, result) ==
    IF i >= Len(lines) THEN [val |-> result, next |-> i]
    ELSE
      LET line == lines[i + 1] IN
      IF line.indent < baseIndent THEN [val |-> result, next |-> i]
      ELSE IF line.indent > baseIndent
           THEN parseBlockLoop(lines, i + 1, baseIndent, result)
      ELSE
        LET kv == splitKeyValue(line.content) IN
        IF kv.ok
        THEN IF kv.value # <<>>
             THEN parseBlockLoop(lines, i + 1, baseIndent,
                                 MapSet(result, kv.key, RStr(kv.value)))
             ELSE LET c == collectChildren(lines, i + 1, baseIndent + ChildStep)
                  IN  parseBlockLoop(lines, c.next, baseIndent,
                                     MapSet(result, kv.key, c.val))
        ELSE parseBlockLoop(lines, i + 1, baseIndent, result)

\* a faulty variant of listLoop: `- PLACE: x` opens a record only when deeper
\* lines follow it, and is a plain string otherwise
RECURSIVE listLoopLeafText(_, _, _, _)
listLoopLeafText(lines, i, childIndent, items) ==
    IF i >= Len(lines) THEN [val |-> RList(items), next |-> i]
    ELSE
      LET line == lines[i + 1] IN
      IF line.indent < childIndent THEN [val |-> RList(items), next |-> i]
      ELSE IF line.indent = childIndent /\ StartsWithMarker(line.content)
      THEN
        LET itemText == Trim(SubSeq(line.content, 3, Len(line.content)))
            kv == splitKeyValue(itemText)
            j == ScanDeeper(lines, i + 1, childIndent)
        IN
        IF kv.ok /\ kv.key = <<"PLACE">> /\ j > i + 1
        THEN LET fieldIndent == IF j > i + 1 THEN lines[i + 2].indent
                                ELSE childIndent + 2
                 subBlock == parseBlock(lines, i + 1, fieldIndent).val
             IN  listLoopLeafText(lines, j, childIndent,
                          Append(items, MapSet(subBlock, kv.key, RStr(kv.value))))
        ELSE IF j > i + 1
        THEN LET fieldIndent == lines[i + 2].indent
                 subBlock == parseBlock(lines, i + 1, fieldIndent).val
             IN  listLoopLeafText(lines, j, childIndent,
                          Append(items,
                                 IF kv.ok
                                 THEN MapSet(subBlock, kv.key, RStr(kv.value))
                                 ELSE MapSet(subBlock, <<"_value">>, RStr(itemText))))
        ELSE listLoopLeafText(lines, i + 1, childIndent, Append(items, RStr(itemText)))
      ELSE listLoopLeafText(lines, i + 1, childIndent, items)

listLoop(lines, i, childIndent, items) ==
    IF i >= Len(lines) THEN [val |-> RList(items), next |-> i]
    ELSE
      LET line == lines[i + 1] IN
      IF line.indent < childIndent THEN [val |-> RList(items), next |-> i]
      ELSE IF line.indent = childIndent /\ StartsWithMarker(line.content)
      THEN
        LET itemText == Trim(SubSeq(line.content, 3, Len(line.content)))
            kv == splitKeyValue(itemText)
            j == ScanDeeper(lines, i + 1, childIndent)
        IN
        IF kv.ok /\ kv.key = <<"PLACE">>
        THEN LET fieldIndent == IF j > i + 1 THEN lines[i + 2].indent
                                ELSE childIndent + 2
                 subBlock == parseBlock(lines, i + 1, fieldIndent).val
             IN  listLoop(lines, j, childIndent,
                          Append(items, MapSet(subBlock, kv.key, RStr(kv.value))))
        ELSE IF j > i + 1
        THEN LET fieldIndent == lines[i + 2].indent
                 subBlock == parseBlock(lines, i + 1, fieldIndent).val
             IN  listLoop(lines, j, childIndent,
                          Append(items,
                                 IF kv.ok
                                 THEN MapSet(subBlock, kv.key, RStr(kv.value))
                                 ELSE MapSet(subBlock, <<"_value">>, RStr(itemText))))
        ELSE listLoop(lines, i + 1, childIndent, Append(items, RStr(itemText)))
      ELSE listLoop(lines, i + 1, childIndent, items)

collectChildren(lines, start, childIndent) ==
    IF start >= Len(lines) THEN [val |-> EmptyList, next |-> start]
    ELSE
      LET firstLine == lines[start + 1] IN
      IF firstLine.indent < childIndent THEN [val |-> EmptyList, next |-> start]
      ELSE IF StartsWithMarker(firstLine.content)
           THEN listLoop(lines, start, childIndent, <<>>)
           ELSE parseBlock(lines, start, childIndent)

(***************************************************************************)
(* Numbers.  A numeric literal is one atom; NumLits lists the literals of  *)
(* the model with the value parseFloat gives them, in tenths.              *)
(***************************************************************************)
Num(n) == [t |-> "num", v |-> n]
NaN == [t |-> "nan", v |-> <<>>]

NumLits ==
    << <<"0", 0>>, <<"1", 10>>, <<"1.0", 10>>, <<"2", 20>>, <<"2.5", 25>>,
       <<"-3", -30>>, <<"7", 70>>, <<"100", 1000>> >>

IsNumLit(a) == \E k \in 1..Len(NumLits) : NumLits[k][1] = a

LitValue(a) == NumLits[CHOOSE k \in 1..Len(NumLits) : NumLits[k][1] = a][2]

\* parseFloat(s): the value of the leading numeric literal, NaN without one.
parseFloat(s) ==
    LET u == TrimStart(s)
    IN  IF u # <<>> /\ IsNumLit(u[1]) THEN Num(LitValue(u[1])) ELSE NaN

\* `${n}` for a number n: the shortest literal of that value.
NumToString(n) ==
    IF n.t = "nan" THEN <<"NaN">>
    ELSE LET k == CHOOSE i \in 1..Len(NumLits) :
                    /\ NumLits[i][2] = n.v
                    /\ \A j \in 1..(i - 1) : NumLits[j][2] # n.v
         IN  <<NumLits[k][1]>>

(***************************************************************************)
(* String(x) and `${x}`: JavaScript's ToString.  An array joins its        *)
(* elements with ","; a plain object gives "[object Object]", unless it    *)
(* has an own property "toString": parsed values are never functions, so   *)
(* the conversion then ends with a TypeError.                              *)
(***************************************************************************)
RECURSIVE ToStringThrows(_)
ToStringThrows(x) ==
    CASE x.t = "map" -> HasKey(x, <<"toString">>)
      [] x.t = "list" -> \E k \in 1..Len(x.v) : ToStringThrows(x.v[k])
      [] OTHER -> FALSE

RECURSIVE JsString(_)
RECURSIVE JoinFrom(_, _)
JoinFrom(items, k) ==
    IF k > Len(items) THEN <<>>
    ELSE (IF k > 1 THEN <<COMMA>> ELSE <<>>) \o JsString(items[k])
         \o JoinFrom(items, k + 1)

JsString(x) ==
    CASE x.t = "str" -> x.v
      [] x.t = "list" -> JoinFrom(x.v, 1)
      [] x.t = "null" -> <<"null">>
      [] x.t \in {"num", "nan"} -> NumToString(x)
      [] OTHER -> <<"[object Object]">>

\* String(x) as a value: the string, or the exception.
StringOf(x) == IF ToStringThrows(x) THEN Throw ELSE RStr(JsString(x))

(***************************************************************************)
(* Data model.                                                             *)
(***************************************************************************)
GeonPlace ==
    [place |-> RStr(<<>>), type |-> RStr(<<>>), id |-> Null,
     location |-> Null, boundary |-> EmptyList, extent |-> Null,
     elevation |-> Null, area |-> Null,
     purpose |-> EmptyList, experience |-> EmptyMap, character |-> EmptyList,
     adjacencies |-> EmptyList, connectivity |-> EmptyMap,
     contains |-> EmptyList, part_of |-> Null, viewsheds |-> EmptyList,
     temporal |-> EmptyMap, lifespan |-> EmptyMap,
     source |-> EmptyList, confidence |-> EmptyMap, updated |-> Null,
     built_form |-> EmptyMap, ecology |-> EmptyMap, infrastructure |-> EmptyMap,
     demographics |-> EmptyMap, economy |-> EmptyMap,
     visual |-> EmptyMap, history |-> EmptyList, vertical_profile |-> EmptyMap,
     extra |-> EmptyMap]

PlaceVal(p) == [t |-> "place", v |-> p]
Coord(lat, lon) == [t |-> "coord", v |-> <<lat, lon>>]
ExtentVal(n, s, e, w) == [t |-> "extent", v |-> <<n, s, e, w>>]

(***************************************************************************)
(* Conversion to GeonPlace.                                                *)
(***************************************************************************)
\* COORD_RE: optional blanks, a literal, a comma, a literal, optional blanks.
parseCoordinate(textVal) ==
    IF ToStringThrows(textVal) THEN Throw
    ELSE
      LET s == JsString(textVal)
          c == IndexOf(s, COMMA)
          left == Trim(SubSeq(s, 1, c))
          right == Trim(SubSeq(s, c + 2, Len(s)))
      IN  IF /\ c # -1
             /\ Len(left) = 1 /\ IsNumLit(left[1])
             /\ Len(right) = 1 /\ IsNumLit(right[1])
          THEN Coord(Num(LitValue(left[1])), Num(LitValue(right[1])))
          ELSE Null

\* s.split(',').map(t => t.trim())
RECURSIVE SplitComma(_, _, _)
SplitComma(s, i, cur) ==
    IF i > Len(s) THEN <<Trim(cur)>>
    ELSE IF s[i] = COMMA THEN <<Trim(cur)>> \o SplitComma(s, i + 1, <<>>)
    ELSE SplitComma(s, i + 1, Append(cur, s[i]))

\* the elements of a sequence of values, or the exception one of them is
Collect(items) ==
    IF \E k \in 1..Len(items) : items[k] = Throw THEN Throw ELSE RList(items)

CollectMap(kv) ==
    IF \E k \in 1..Len(kv) : kv[k][2] = Throw THEN Throw ELSE RMap(kv)

\* a faulty variant of toStringList: a bare scalar is not promoted to a list
toStringListOnly(val) ==
    CASE val.t = "list" -> Collect([k \in 1..Len(val.v) |-> StringOf(val.v[k])])
      [] OTHER -> EmptyList

toStringList(val) ==
    CASE val.t = "list" -> Collect([k \in 1..Len(val.v) |-> StringOf(val.v[k])])
      [] val.t = "str" -> RList(<<val>>)
      [] OTHER -> EmptyList

toStringMap(val) ==
    IF val.t = "map"
    THEN CollectMap([k \in 1..Len(val.v) |-> <<val.v[k][1], StringOf(val.v[k][2])>>])
    ELSE EmptyMap

boundaryOf(b) ==
    IF Truthy(b) /\ IsList(b)
    THEN LET cs == [k \in 1..Len(b.v) |-> parseCoordinate(StringOf(b.v[k]))]
         IN  IF \E k \in 1..Len(cs) : ToStringThrows(b.v[k]) THEN Throw
             ELSE RList(SelectSeq(cs, LAMBDA c : c # Null))
    ELSE EmptyList

extentOf(e) ==
    IF Truthy(e)
    THEN IF ToStringThrows(e) THEN Throw
         ELSE LET parts == SplitComma(JsString(e), 1, <<>>)
              IN  IF Len(parts) = 4
                  THEN ExtentVal(parseFloat(parts[1]), parseFloat(parts[2]),
                                 parseFloat(parts[3]), parseFloat(parts[4]))
                  ELSE Null
    ELSE Null

known ==
    { <<"PLACE">>, <<"TYPE">>, <<"ID">>, <<"LOCATION">>, <<"BOUNDARY">>,
      <<"EXTENT">>, <<"ELEVATION">>, <<"AREA">>, <<"PURPOSE">>,
      <<"EXPERIENCE">>, <<"CHARACTER">>, <<"ADJACENCIES">>, <<"CONNECTIVITY">>,
      <<"CONTAINS">>, <<"PART_OF">>, <<"VIEWSHEDS">>, <<"TEMPORAL">>,
      <<"LIFESPAN">>, <<"SOURCE">>, <<"CONFIDENCE">>, <<"UPDATED">>,
      <<"BUILT_FORM">>, <<"ECOLOGY">>, <<"INFRASTRUCTURE">>, <<"DEMOGRAPHICS">>,
      <<"ECONOMY">>, <<"VISUAL">>, <<"HISTORY">>, <<"VERTICAL_PROFILE">> }

\* a faulty variant of extraOf: only scalar values are kept
extraOfScalars(raw) ==
    RMap(SelectSeq(raw.v, LAMBDA e : e[1] \notin known /\ e[2].t = "str"))

extraOf(raw) == RMap(SelectSeq(raw.v, LAMBDA e : e[1] \notin known))

\* x || d
OrElse(x, d) == IF Truthy(x) THEN x ELSE d

RECURSIVE rawToPlace(_)
containsOf(c) ==
    IF Truthy(c) /\ IsList(c)
    THEN Collect([k \in 1..Len(c.v) |->
                    IF c.v[k].t = "str"
                    THEN PlaceVal([GeonPlace EXCEPT !.place = c.v[k]])
                    ELSE rawToPlace(c.v[k])])
    ELSE EmptyList

rawToPlace(raw) ==
    LET F(k) == Get(raw, <<k>>)
        p == [place |-> OrElse(F("PLACE"), GeonPlace.place),
              type |-> OrElse(F("TYPE"), GeonPlace.type),
              id |-> OrElse(F("ID"), GeonPlace.id),
              location |-> IF Truthy(F("LOCATION"))
                           THEN parseCoordinate(F("LOCATION")) ELSE Null,
              boundary |-> boundaryOf(F("BOUNDARY")),
              extent |-> extentOf(F("EXTENT")),
              elevation |-> OrElse(F("ELEVATION"), GeonPlace.elevation),
              area |-> OrElse(F("AREA"), GeonPlace.area),
              purpose |-> toStringList(F("PURPOSE")),
              experience |-> toStringMap(F("EXPERIENCE")),
              character |-> toStringList(F("CHARACTER")),
              adjacencies |-> toStringList(F("ADJACENCIES")),
              connectivity |-> toStringMap(F("CONNECTIVITY")),
              contains |-> containsOf(F("CONTAINS")),
              part_of |-> OrElse(F("PART_OF"), GeonPlace.part_of),
              viewsheds |-> OrElse(F("VIEWSHEDS"), GeonPlace.viewsheds),
              temporal |-> OrElse(F("TEMPORAL"), EmptyMap),
              lifespan |-> toStringMap(F("LIFESPAN")),
              source |-> toStringList(F("SOURCE")),
              confidence |-> toStringMap(F("CONFIDENCE")),
              updated |-> OrElse(F("UPDATED"), Null),
              built_form |-> OrElse(F("BUILT_FORM"), EmptyMap),
              ecology |-> OrElse(F("ECOLOGY"), EmptyMap),
              infrastructure |-> OrElse(F("INFRASTRUCTURE"), EmptyMap),
              demographics |-> OrElse(F("DEMOGRAPHICS"), EmptyMap),
              economy |-> OrElse(F("ECONOMY"), EmptyMap),
              visual |-> OrElse(F("VISUAL"), EmptyMap),
              history |-> IF IsList(F("HISTORY")) THEN F("HISTORY")
                          ELSE GeonPlace.history,
              vertical_profile |-> OrElse(F("VERTICAL_PROFILE"), EmptyMap),
              extra |-> extraOf(raw)]
    IN  IF \E f \in DOMAIN p : p[f] = Throw THEN Throw ELSE PlaceVal(p)

parse(text) ==
    LET lines == tokenizeLines(text)
    IN  IF Len(lines) = 0 THEN PlaceVal(GeonPlace)
        ELSE rawToPlace(parseBlock(lines, 0, 0).val)

(***************************************************************************)
(* Generator.                                                              *)
(***************************************************************************)
\* The atoms of the model in the order of the UTF-16 code units of the text
\* they stand for: Array.prototype.sort() compares strings by code unit.
AtomOrder ==
    << "\n", " ", ",", "-", "-3", "0", "1", "1.0", "100", "2", "2.5", "3", "4",
       "5", "6", "7", "8", "9", ":",
       "A", "ADJACENCIES", "AREA", "B", "BOUNDARY", "BUILT_FORM", "CHARACTER",
       "CONFIDENCE", "CONNECTIVITY", "CONTAINS", "DEMOGRAPHICS", "ECOLOGY",
       "ECONOMY", "ELEVATION", "EXPERIENCE", "EXTENT", "HISTORY", "ID",
       "INFRASTRUCTURE", "LIFESPAN", "LOCATION", "NaN", "P", "PART_OF", "PLACE",
       "PURPOSE", "SOURCE", "TEMPORAL", "TYPE", "UPDATED", "VERTICAL_PROFILE",
       "VIEWSHEDS", "VISUAL", "X", "Y",
       "[object Object]", "_value",
       "a", "b", "c", "j", "junk", "k", "north", "null", "t", "toString", "u",
       "v", "w" >>

Rank(a) ==
    IF \E i \in 1..Len(AtomOrder) : AtomOrder[i] = a
    THEN CHOOSE i \in 1..Len(AtomOrder) : AtomOrder[i] = a
    ELSE Len(AtomOrder) + 1

\* a < b as strings
RECURSIVE StrLess(_, _)
StrLess(a, b) ==
    IF b = <<>> THEN FALSE
    ELSE IF a = <<>> THEN TRUE
    ELSE IF Rank(Head(a)) # Rank(Head(b)) THEN Rank(Head(a)) < Rank(Head(b))
    ELSE StrLess(Tail(a), Tail(b))

RECURSIVE InsertKey(_, _)
InsertKey(sorted, k) ==
    IF sorted = <<>> THEN <<k>>
    ELSE IF StrLess(k, Head(sorted)) THEN <<k>> \o sorted
    ELSE <<Head(sorted)>> \o InsertKey(Tail(sorted), k)

\* keys.sort()
RECURSIVE SortKeys(_)
SortKeys(ks) ==
    IF ks = <<>> THEN <<>>
    ELSE InsertKey(SortKeys(SubSeq(ks, 1, Len(ks) - 1)), ks[Len(ks)])

DigitAtoms == <<"0", "1", "2", "3", "4", "5", "6", "7", "8", "9">>
IndexKey(i) == <<DigitAtoms[i + 1]>>

\* Object.keys(x): the own keys of an object, the indices of an array or of a
\* string (one per atom).
ObjectKeys(x) ==
    CASE x.t = "map" -> [k \in 1..Len(x.v) |-> x.v[k][1]]
      [] x.t \in {"list", "str"} -> [k \in 1..Len(x.v) |-> IndexKey(k - 1)]
      [] OTHER -> <<>>

\* x[key] for a key that Object.keys(x) returned
Member(x, key) ==
    CASE x.t = "map" -> Get(x, key)
      [] x.t = "list" ->
            x.v[CHOOSE k \in 1..Len(x.v) : IndexKey(k - 1) = key]
      [] x.t = "str" ->
            RStr(<<x.v[CHOOSE k \in 1..Len(x.v) : IndexKey(k - 1) = key]>>)
      [] OTHER -> Null

\* typeof x === 'object' && x !== null
IsObject(x) == x.t \notin {"str", "null", "num", "nan"}

INDENT == <<SP, SP>>

RECURSIVE writeIndent(_)
writeIndent(depth) == IF depth <= 0 THEN <<>> ELSE INDENT \o writeIndent(depth - 1)

writeLine(key, value, depth) ==
    writeIndent(depth) \o key \o <<CO, SP>> \o value \o <<NL>>

writeSection(key, depth) == writeIndent(depth) \o key \o <<CO, NL>>

RECURSIVE writeListFrom(_, _, _)
writeListFrom(items, k, depth) ==
    IF k > Len(items) THEN <<>>
    ELSE writeIndent(depth) \o <<DASH, SP>> \o JsString(items[k]) \o <<NL>>
         \o writeListFrom(items, k + 1, depth)

writeList(items, depth) == writeListFrom(items, 1, depth)

\* the order in which writeDict visits the keys of a mapping
\* a faulty variant of dictKeys: the keys in insertion order, unsorted
dictKeysUnsorted(map) == ObjectKeys(map)

dictKeys(map) == SortKeys(ObjectKeys(map))

RECURSIVE writeDict(_, _)
RECURSIVE writeDictFrom(_, _, _, _)
writeDictFrom(map, keys, k, depth) ==
    IF k > Len(keys) THEN <<>>
    ELSE
      LET key == keys[k]
          val == Member(map, key)
      IN  (IF IsObject(val)
           THEN writeIndent(depth) \o key \o <<CO, NL>>
                \o (IF val.t # "list" THEN writeDict(val, depth + 1) ELSE <<>>)
           ELSE writeIndent(depth) \o key \o <<CO, SP>> \o JsString(val) \o <<NL>>)
          \o writeDictFrom(map, keys, k + 1, depth)

writeDict(map, depth) == writeDictFrom(map, dictKeys(map), 1, depth)

\* `${c.lat}, ${c.lon}`
coordText(c) == NumToString(c.v[1]) \o <<COMMA, SP>> \o NumToString(c.v[2])

\* a faulty variant of listField: the header is written for an empty list too
listFieldAlways(key, list, depth) ==
    IF Len(list.v) = 1 THEN writeLine(<<key>>, JsString(list.v[1]), depth)
    ELSE writeSection(<<key>>, depth) \o writeList(list.v, depth + 1)

\* a list field: one element as a scalar line, more as a section
listField(key, list, depth) ==
    IF Len(list.v) = 0 THEN <<>>
    ELSE IF Len(list.v) = 1 THEN writeLine(<<key>>, JsString(list.v[1]), depth)
    ELSE writeSection(<<key>>, depth) \o writeList(list.v, depth + 1)

\* a list field that is always written as a section
listSection(key, list, depth) ==
    IF Len(list.v) > 0
    THEN writeSection(<<key>>, depth) \o writeList(list.v, depth + 1)
    ELSE <<>>

dictSection(key, map, depth) ==
    IF Len(ObjectKeys(map)) > 0
    THEN writeSection(<<key>>, depth) \o writeDict(map, depth + 1)
    ELSE <<>>

scalarLine(key, val, depth) ==
    IF Truthy(val) THEN writeLine(<<key>>, JsString(val), depth) ELSE <<>>

\* the fields generateNested writes for a child
nestedFields(p, inner) ==
    scalarLine("TYPE", p.type, inner)
    \o (IF Truthy(p.location)
        THEN writeLine(<<"LOCATION">>, coordText(p.location), inner) ELSE <<>>)
    \o scalarLine("AREA", p.area, inner)
    \o listField("PURPOSE", p.purpose, inner)
    \o dictSection("TEMPORAL", p.temporal, inner)

generateNested(place, depth) ==
    writeIndent(depth) \o <<DASH, SP, "PLACE", CO, SP>> \o JsString(place.v.place)
    \o <<NL>> \o nestedFields(place.v, depth + 2)

nestedThrows(place) ==
    \/ ToStringThrows(place.v.place)
    \/ Truthy(place.v.type) /\ ToStringThrows(place.v.type)
    \/ Truthy(place.v.area) /\ ToStringThrows(place.v.area)

RECURSIVE containsFrom(_, _)
containsFrom(children, k) ==
    IF k > Len(children) THEN <<>>
    ELSE generateNested(children[k], 1) \o <<NL>> \o containsFrom(children, k + 1)

viewshedsText(vs) ==
    IF vs.t = "list"
    THEN listSection("VIEWSHEDS", vs, 0)
    ELSE dictSection("VIEWSHEDS", vs, 0)

RECURSIVE historyFrom(_, _)
historyFrom(hs, k) ==
    IF k > Len(hs) THEN <<>>
    ELSE writeDict(hs[k], 1) \o historyFrom(hs, k + 1)

\* typeof val === 'object' is true of null as well; generateThrows covers it
extraEntry(key, val) ==
    IF val.t \notin {"str", "num", "nan"}
    THEN IF val.t = "list"
         THEN writeSection(key, 0) \o writeList(val.v, 1)
         ELSE writeSection(key, 0) \o writeDict(val, 1)
    ELSE writeLine(key, JsString(val), 0)

\* the order in which generate visits the keys of extra
extraKeys(extra) == SortKeys(ObjectKeys(extra))

RECURSIVE extraFrom(_, _, _)
extraFrom(extra, keys, k) ==
    IF k > Len(keys) THEN <<>>
    ELSE extraEntry(keys[k], Get(extra, keys[k])) \o extraFrom(extra, keys, k + 1)

\* the conversions to string and the key enumerations of generate that end
\* with a TypeError
generateThrows(p) ==
    \/ ToStringThrows(p.place)
    \/ \E f \in {"type", "id", "elevation", "area", "part_of", "updated"} :
          Truthy(p[f]) /\ ToStringThrows(p[f])
    \/ \E k \in 1..Len(p.contains.v) : nestedThrows(p.contains.v[k])
    \/ p.viewsheds.t = "list" /\ ToStringThrows(p.viewsheds)
    \/ \E k \in 1..Len(p.extra.v) :
          LET val == p.extra.v[k][2]
          IN  \/ val.t = "null"
              \/ val.t = "list" /\ ToStringThrows(val)

\* everything generate writes ahead of the extra fields
knownText(p) ==
    writeLine(<<"PLACE">>, JsString(p.place), 0)
    \o scalarLine("TYPE", p.type, 0)
    \o scalarLine("ID", p.id, 0)
    \o (IF Truthy(p.location)
        THEN writeLine(<<"LOCATION">>, coordText(p.location), 0) ELSE <<>>)
    \o (IF Len(p.boundary.v) > 0
        THEN writeSection(<<"BOUNDARY">>, 0)
             \o writeList([k \in 1..Len(p.boundary.v) |->
                             RStr(coordText(p.boundary.v[k]))], 1)
        ELSE <<>>)
    \o (IF Truthy(p.extent)
        THEN writeLine(<<"EXTENT">>,
                       NumToString(p.extent.v[1]) \o <<COMMA, SP>>
                       \o NumToString(p.extent.v[2]) \o <<COMMA, SP>>
                       \o NumToString(p.extent.v[3]) \o <<COMMA, SP>>
                       \o NumToString(p.extent.v[4]), 0)
        ELSE <<>>)
    \o scalarLine("ELEVATION", p.elevation, 0)
    \o scalarLine("AREA", p.area, 0)
    \o listField("PURPOSE", p.purpose, 0)
    \o dictSection("EXPERIENCE", p.experience, 0)
    \o listSection("CHARACTER", p.character, 0)
    \o listSection("ADJACENCIES", p.adjacencies, 0)
    \o dictSection("CONNECTIVITY", p.connectivity, 0)
    \o (IF Len(p.contains.v) > 0
        THEN writeSection(<<"CONTAINS">>, 0) \o containsFrom(p.contains.v, 1)
        ELSE <<>>)
    \o scalarLine("PART_OF", p.part_of, 0)
    \o viewshedsText(p.viewsheds)
    \o dictSection("TEMPORAL", p.temporal, 0)
    \o dictSection("LIFESPAN", p.lifespan, 0)
    \o listSection("SOURCE", p.source, 0)
    \o dictSection("CONFIDENCE", p.confidence, 0)
    \o scalarLine("UPDATED", p.updated, 0)
    \o dictSection("BUILT_FORM", p.built_form, 0)
    \o dictSection("ECOLOGY", p.ecology, 0)
    \o dictSection("INFRASTRUCTURE", p.infrastructure, 0)
    \o dictSection("DEMOGRAPHICS", p.demographics, 0)
    \o dictSection("ECONOMY", p.economy, 0)
    \o dictSection("VISUAL", p.visual, 0)
    \o dictSection("VERTICAL_PROFILE", p.vertical_profile, 0)
    \o (IF Len(p.history.v) > 0
        THEN writeSection(<<"HISTORY">>, 0) \o historyFrom(p.history.v, 1)
        ELSE <<>>)

\* a faulty variant of generateText: the extra fields are written first
generateTextExtraFirst(p) ==
    extraFrom(p.extra, extraKeys(p.extra), 1) \o knownText(p)

generateText(p) ==
    knownText(p) \o extraFrom(p.extra, extraKeys(p.extra), 1)

\* generate(place): the text, or the exception
generate(place) ==
    IF generateThrows(place.v) THEN Throw ELSE RStr(generateText(place.v))

(***************************************************************************)
(* GeoJSON converter.  A GeoJSON value is an object (map), an array        *)
(* (list), a string, a number or null; an absent property reads as null.   *)
(***************************************************************************)
TYPE_MAPPING ==
    << <<"park", "public_space">>, <<"garden", "public_space">>,
       <<"playground", "public_space">>, <<"plaza", "public_space">>,
       <<"square", "public_space">>, <<"marketplace", "public_space">>,
       <<"yes", "building">>, <<"house", "building">>,
       <<"apartments", "building">>, <<"commercial", "building">>,
       <<"retail", "building">>, <<"office", "building">>,
       <<"school", "building">>, <<"hospital", "building">>,
       <<"railway_station", "transport_hub">>, <<"station", "transport_hub">>,
       <<"bus_station", "transport_hub">>, <<"airport", "transport_hub">>,
       <<"monument", "landmark">>, <<"memorial", "landmark">>,
       <<"church", "building">>, <<"cathedral", "building">> >>

\* the properties every plain object inherits: TYPE_MAPPING[val] finds them too
InheritedKeys == {<<"toString">>, <<"constructor">>, <<"valueOf">>}

\* TYPE_MAPPING[val]
TypeMappingAt(val) ==
    IF \E k \in 1..Len(TYPE_MAPPING) : <<TYPE_MAPPING[k][1]>> = val
    THEN W(TYPE_MAPPING[CHOOSE k \in 1..Len(TYPE_MAPPING) :
                            <<TYPE_MAPPING[k][1]>> = val][2])
    ELSE IF val \in InheritedKeys THEN [t |-> "func", v |-> val]
    ELSE Null

TypeKeys ==
    << "type", "building", "highway", "railway", "leisure", "amenity",
       "natural", "landuse" >>

RECURSIVE inferTypeFrom(_, _)
inferTypeFrom(props, k) ==
    IF k > Len(TypeKeys) THEN W("hybrid")
    ELSE LET val == Get(props, <<TypeKeys[k]>>)
         IN  IF ~Truthy(val) THEN inferTypeFrom(props, k + 1)
             ELSE IF ToStringThrows(val) THEN Throw
             ELSE IF Truthy(TypeMappingAt(JsString(val)))
                  THEN TypeMappingAt(JsString(val))
             ELSE inferTypeFrom(props, k + 1)

inferType(props) ==
    IF Truthy(Get(props, <<"geon_type">>))
    THEN StringOf(Get(props, <<"geon_type">>))
    ELSE inferTypeFrom(props, 1)

NameKeys == << <<"name">>, <<"name", CO, "en">>, <<"official_name">>, <<"title">>, <<"label">> >>

RECURSIVE inferNameFrom(_, _)
inferNameFrom(props, k) ==
    IF k > Len(NameKeys) THEN W("Unnamed")
    ELSE IF Truthy(Get(props, NameKeys[k])) THEN StringOf(Get(props, NameKeys[k]))
    ELSE inferNameFrom(props, k + 1)

inferName(props) == inferNameFrom(props, 1)

\* x[i] for a 0-based index: the element, undefined past the end or of a
\* value without elements
At(x, i) == IF x.t = "list" /\ i < Len(x.v) THEN x.v[i + 1] ELSE Null

\* a + b and a / n on numbers; anything that is not a number gives NaN
Plus(a, b) == IF a.t = "num" /\ b.t = "num" THEN Num(a.v + b.v) ELSE NaN

\* a quotient that is no whole number of tenths is kept as the fraction
Quot(a, n) ==
    IF a.t # "num" THEN NaN
    ELSE IF a.v % n = 0 THEN Num(a.v \div n)
    ELSE [t |-> "ratio", v |-> <<a.v, n>>]

\* a faulty variant of SumAt: the closing vertex of the ring is left out
RECURSIVE SumAtOpen(_, _, _)
SumAtOpen(ring, i, k) ==
    IF k >= Len(ring) THEN Num(0)
    ELSE Plus(At(ring[k], i), SumAtOpen(ring, i, k + 1))

RECURSIVE SumAt(_, _, _)
SumAt(ring, i, k) ==
    IF k > Len(ring) THEN Num(0)
    ELSE Plus(At(ring[k], i), SumAt(ring, i, k + 1))

\* pt[0] of a ring member that is null or undefined is a TypeError
RingThrows(ring) == \E k \in 1..Len(ring.v) : ring.v[k].t = "null"

\* a faulty variant of extractCentroid: a Point's coordinates are taken in the
\* order they are written, lon as lat
extractCentroidUnswapped(geom) ==
    IF ~Truthy(geom) \/ ~Truthy(Get(geom, <<"type">>)) THEN Null
    ELSE
      LET coords == Get(geom, <<"coordinates">>)
          ring == At(coords, 0)
      IN  IF ~Truthy(coords) THEN Null
          ELSE IF Get(geom, <<"type">>) = W("Point")
               THEN Coord(At(coords, 0), At(coords, 1))
          ELSE IF /\ Get(geom, <<"type">>) = W("Polygon")
                  /\ ring.t = "list" /\ Len(ring.v) > 0
               THEN IF RingThrows(ring) THEN Throw
                    ELSE Coord(Quot(SumAt(ring.v, 1, 1), Len(ring.v)),
                               Quot(SumAt(ring.v, 0, 1), Len(ring.v)))
          ELSE Null

\* a faulty variant of extractCentroid: missing coordinates are not tested
\* for, and reading coords[1] of undefined is a TypeError
extractCentroidUnguarded(geom) ==
    IF ~Truthy(geom) \/ ~Truthy(Get(geom, <<"type">>)) THEN Null
    ELSE
      LET coords == Get(geom, <<"coordinates">>)
          ring == At(coords, 0)
      IN  IF coords.t = "null" THEN Throw
          ELSE IF Get(geom, <<"type">>) = W("Point")
               THEN Coord(At(coords, 1), At(coords, 0))
          ELSE IF /\ Get(geom, <<"type">>) = W("Polygon")
                  /\ ring.t = "list" /\ Len(ring.v) > 0
               THEN IF RingThrows(ring) THEN Throw
                    ELSE Coord(Quot(SumAt(ring.v, 1, 1), Len(ring.v)),
                               Quot(SumAt(ring.v, 0, 1), Len(ring.v)))
          ELSE Null

extractCentroid(geom) ==
    IF ~Truthy(geom) \/ ~Truthy(Get(geom, <<"type">>)) THEN Null
    ELSE
      LET coords == Get(geom, <<"coordinates">>)
          ring == At(coords, 0)
      IN  IF ~Truthy(coords) THEN Null
          ELSE IF Get(geom, <<"type">>) = W("Point")
               THEN Coord(At(coords, 1), At(coords, 0))
          ELSE IF /\ Get(geom, <<"type">>) = W("Polygon")
                  /\ ring.t = "list" /\ Len(ring.v) > 0
               THEN IF RingThrows(ring) THEN Throw
                    ELSE Coord(Quot(SumAt(ring.v, 1, 1), Len(ring.v)),
                               Quot(SumAt(ring.v, 0, 1), Len(ring.v)))
          ELSE Null

\* x.length > 0
HasLength(x) == x.t \in {"list", "str"} /\ Len(x.v) > 0

\* the boundary of a Polygon: its first ring with lat and lon swapped
polygonBoundary(geom) ==
    LET coords == Get(geom, <<"coordinates">>)
        ring == At(coords, 0)
    IN  IF Get(geom, <<"type">>) = W("Polygon") /\ Truthy(coords) /\ HasLength(coords)
        THEN IF ring.t # "list" \/ RingThrows(ring) THEN Throw
             ELSE RList([k \in 1..Len(ring.v) |->
                            Coord(At(ring.v[k], 1), At(ring.v[k], 0))])
        ELSE EmptyList

\* feature.id || props.id || props["@id"]
featureId(feature, props) ==
    OrElse(OrElse(Get(feature, <<"id">>), Get(props, <<"id">>)), Get(props, <<"@id">>))

\* the purposes pushed for amenity, leisure and shop, in that order
purposeOf(props) ==
    (IF Truthy(Get(props, <<"amenity">>))
     THEN <<StringOf(Get(props, <<"amenity">>))>> ELSE <<>>)
    \o (IF Truthy(Get(props, <<"leisure">>))
        THEN <<StringOf(Get(props, <<"leisure">>))>> ELSE <<>>)
    \o (IF Truthy(Get(props, <<"shop">>))
        THEN <<IF ToStringThrows(Get(props, <<"shop">>)) THEN Throw
               ELSE RStr(<<"retail (">> \o JsString(Get(props, <<"shop">>)) \o <<")">>)>>
        ELSE <<>>)

experienceOf(props) ==
    LET e == Get(props, <<"experience">>)
    IN  IF Truthy(e) /\ IsObject(e)
        THEN LET ks == ObjectKeys(e)
             IN  CollectMap([k \in 1..Len(ks) |-> <<ks[k], StringOf(Member(e, ks[k]))>>])
        ELSE EmptyMap

\* a faulty variant of keptReferences: the Polygon's first ring is stored as
\* the boundary itself, not copied
keptReferencesRing(feature) ==
    LET geom == OrElse(Get(feature, <<"geometry">>), EmptyMap)
        ring == At(Get(geom, <<"coordinates">>), 0)
    IN  IF Get(geom, <<"type">>) = W("Polygon") /\ ring.t = "list" THEN {ring} ELSE {}

\* the objects of the feature that the returned Place holds by reference.
\* featureToGeon stores strings (String(...), template literals) and objects
\* and arrays it builds itself ({lat, lon}, map(...), p.experience[k]); the
\* only values of the input it stores as they are, are the coordinates
\* coords[1], coords[0] of a Point and pt[1], pt[0] of a ring's points, which
\* are shared when they are objects and copied when they are numbers.
keptReferences(feature) ==
    LET geom == OrElse(Get(feature, <<"geometry">>), EmptyMap)
        coords == Get(geom, <<"coordinates">>)
        ring == At(coords, 0)
        stored ==
            IF Get(geom, <<"type">>) = W("Point") /\ Truthy(coords)
            THEN {At(coords, 0), At(coords, 1)}
            ELSE IF Get(geom, <<"type">>) = W("Polygon") /\ ring.t = "list"
            THEN UNION {{At(ring.v[k], 0), At(ring.v[k], 1)} : k \in 1..Len(ring.v)}
            ELSE {}
    IN  {x \in stored : IsObject(x)}

featureToGeon(feature) ==
    IF feature.t = "null" THEN Throw
    ELSE
      LET props == OrElse(Get(feature, <<"properties">>), EmptyMap)
          geom == OrElse(Get(feature, <<"geometry">>), EmptyMap)
          fid == featureId(feature, props)
          p == [GeonPlace EXCEPT
                  !.place = inferName(props),
                  !.type = inferType(props),
                  !.location = extractCentroid(geom),
                  !.boundary = polygonBoundary(geom),
                  !.id = IF Truthy(fid) THEN StringOf(fid) ELSE Null,
                  !.purpose = Collect(purposeOf(props)),
                  !.experience = experienceOf(props),
                  !.source = RList(<<RStr(<<"GeoJSON conversion">>)>>)]
      IN  IF \E f \in DOMAIN p : p[f] = Throw THEN Throw ELSE PlaceVal(p)

\* a faulty variant of fromGeoJSON: a feature equal to an earlier one of the
\* collection is left out
fromGeoJSONDistinct(json) ==
    IF Get(json, <<"type">>) = W("FeatureCollection") /\ Get(json, <<"features">>).t = "list"
    THEN LET fs == Get(json, <<"features">>).v
             keep == {k \in 1..Len(fs) : \A j \in 1..(k - 1) : fs[j] # fs[k]}
             nth(n) == CHOOSE k \in keep : Cardinality({j \in keep : j < k}) = n - 1
         IN  Collect([n \in 1..Cardinality(keep) |-> featureToGeon(fs[nth(n)])])
    ELSE IF Get(json, <<"type">>) = W("Feature") THEN Collect(<<featureToGeon(json)>>)
    ELSE EmptyList

fromGeoJSON(json) ==
    IF Get(json, <<"type">>) = W("FeatureCollection") /\ Get(json, <<"features">>).t = "list"
    THEN Collect([k \in 1..Len(Get(json, <<"features">>).v) |->
                     featureToGeon(Get(json, <<"features">>).v[k])])
    ELSE IF Get(json, <<"type">>) = W("Feature") THEN Collect(<<featureToGeon(json)>>)
    ELSE EmptyList

(***************************************************************************)
(* Inputs.  A document is composed block by block; a block is one field    *)
(* with the lines under it.  The documents are drawn from families, each   *)
(* with an opening text and a pool of blocks.                              *)
(***************************************************************************)
MaxBlocks == 2

RECURSIVE Spaces(_)
Spaces(n) == IF n <= 0 THEN <<>> ELSE <<SP>> \o Spaces(n - 1)

Line(indent, content) == Spaces(indent) \o content \o <<NL>>
KV(k, v) == <<k, CO, SP>> \o v
Hdr(k) == <<k, CO>>
Item(s) == <<DASH, SP>> \o s

Families == {"fields", "lists", "maps", "contain", "multi", "api", "geojson"}

Preamble(fam) ==
    IF fam = "contain"
    THEN Line(0, KV("PLACE", <<"P">>)) \o Line(0, Hdr("CONTAINS"))
         \o Line(2, Item(KV("PLACE", <<"A">>))) \o Line(4, KV("TYPE", <<"t">>))
    ELSE IF fam \in {"lists", "maps"} THEN Line(0, KV("PLACE", <<"P">>))
    ELSE IF fam = "multi"
    THEN Line(0, KV("PLACE", <<"P">>)) \o Line(0, KV("TYPE", <<"t">>))
    ELSE <<>>

FieldBlocks ==
    { Line(0, KV("PLACE", <<"P">>)),
      Line(0, Hdr("PLACE")),
      Line(0, KV("TYPE", <<"t">>)),
      Line(0, KV("LOCATION", <<"1.0", COMMA, SP, "-3">>)),
      Line(0, KV("LOCATION", <<"north">>)),
      Line(0, <<"junk">>),
      Line(2, KV("ID", <<"7">>)),
      Line(2, KV("toString", <<"a">>)),
      Line(0, Hdr("EXTENT")),
      Line(0, KV("EXTENT", <<"2", COMMA, SP, "1", COMMA, SP, "2.5", COMMA, SP, "-3">>)),
      Line(0, KV("EXTENT", <<"north", COMMA, SP, "1", COMMA, SP, "2", COMMA, SP, "2.5">>)),
      Line(0, KV("EXTENT", <<"1", COMMA, SP, "2">>)),
      Line(0, KV("X", <<"u">>)) }

ListBlocks ==
    { Line(0, KV("PURPOSE", <<"a">>)),
      Line(0, KV("PURPOSE", KV("PLACE", <<"A">>))),
      Line(0, KV("CHARACTER", KV("k", <<"v">>))),
      Line(0, KV("ADJACENCIES", <<"b">>)),
      Line(0, KV("SOURCE", <<"a">>)),
      Line(0, Hdr("PURPOSE")) \o Line(2, Item(<<"a">>)) \o Line(2, Item(<<"b">>)),
      Line(0, Hdr("VIEWSHEDS")) \o Line(2, Item(<<"a">>)) \o Line(2, Item(<<"b">>)),
      Line(0, KV("VIEWSHEDS", <<"a">>)),
      Line(0, Hdr("BOUNDARY")) \o Line(2, Item(<<"1.0", COMMA, SP, "2">>))
          \o Line(2, Item(<<"2.5", COMMA, SP, "100">>)) }

MapBlocks ==
    { Line(0, KV("X", <<"u">>)),
      Line(0, Hdr("X")) \o Line(2, Item(<<"a">>)) \o Line(2, Item(<<"b">>)),
      Line(0, Hdr("Y")) \o Line(2, KV("k", <<"v">>)) \o Line(2, Hdr("j"))
          \o Line(4, KV("a", <<"b">>)),
      Line(0, Hdr("Y")) \o Line(2, Hdr("j")) \o Line(4, Item(<<"a">>))
          \o Line(4, Item(<<"b">>)),
      Line(0, Hdr("TEMPORAL")) \o Line(2, KV("k", <<"v">>)) \o Line(2, KV("a", <<"b">>)),
      Line(0, Hdr("EXPERIENCE")) \o Line(2, KV("k", <<"v">>)),
      Line(0, KV("TEMPORAL", <<"v">>)),
      Line(0, KV("CONFIDENCE", <<"v">>)),
      Line(0, Hdr("VIEWSHEDS")) \o Line(2, KV("k", <<"v">>)),
      Line(0, Hdr("Y")) \o Line(2, Hdr("j")) \o Line(2, KV("k", <<"v">>)),
      Line(0, Hdr("HISTORY")) \o Line(2, Item(KV("k", <<"v">>)))
          \o Line(4, KV("j", <<"w">>)) }

ChildBlocks ==
    { Line(2, Item(KV("PLACE", <<"A">>))),
      Line(2, Item(KV("PLACE", <<"A">>))) \o Line(4, KV("TYPE", <<"t">>)),
      Line(2, Item(KV("PLACE", <<"B">>))) \o Line(4, KV("ID", <<"7">>)),
      Line(2, Item(KV("PLACE", <<"B">>))) \o Line(4, Hdr("PURPOSE"))
          \o Line(6, Item(<<"a">>)) \o Line(6, Item(<<"b">>)),
      Line(2, Item(KV("PLACE", <<"B">>))) \o Line(4, KV("X", <<"u">>))
          \o Line(4, KV("AREA", <<"a">>)),
      Line(2, Item(<<"b">>)),
      Line(3, KV("ELEVATION", <<"e">>)),
      Line(0, KV("TYPE", <<"u">>)) }

\* a document of several top-level records: the lines that open a further
\* record and the fields written under it
RecordBlocks ==
    { Line(0, KV("PLACE", <<"A">>)),
      Line(0, KV("PLACE", <<"B">>)),
      Line(0, KV("TYPE", <<"u">>)),
      Line(0, KV("ID", <<"7">>)),
      Line(0, KV("AREA", <<"a">>)) }

Pool(fam) ==
    CASE fam = "fields" -> FieldBlocks
      [] fam = "lists" -> ListBlocks
      [] fam = "maps" -> MapBlocks
      [] fam = "contain" -> ChildBlocks
      [] fam = "multi" -> RecordBlocks
      [] OTHER -> {}

\* Programmatic construction: the assignments a caller may make on a new GeonPlace.
ScalarAssignments ==
    { <<"place", W("P")>>,
      <<"type", W("t")>>,
      <<"location", Coord(Num(1000), Num(25))>>,
      <<"viewsheds", RMap(<< <<<<"k">>, W("v")>> >>)>> }

EntryAssignments ==
    { <<"temporal", <<"k">>, W("v")>>,
      <<"temporal", <<"a">>, W("b")>>,
      <<"extra", <<"X">>, W("u")>>,
      <<"extra", <<"Y">>, Null>>,
      <<"extra", <<"A">>, RMap(<< <<<<"k">>, W("v")>>, <<<<"j">>, W("w")>> >>)>> }

PushAssignments ==
    { <<"purpose", W("a")>>,
      <<"boundary", Coord(Num(10), Num(20))>>,
      <<"boundary", Coord(Num(20), Num(10))>>,
      <<"history", RMap(<< <<<<"k">>, W("v")>> >>)>>,
      <<"contains", PlaceVal([GeonPlace EXCEPT !.place = W("A"), !.id = W("7")])>> }

\* GeoJSON inputs: the features a caller may hand to the converter
MaxFeatures == 2

Key(k) == <<k>>
Pt(lon, lat) == RList(<<Num(lon), Num(lat)>>)

SquareRing ==
    RList(<<Pt(0, 0), Pt(0, 20), Pt(20, 20), Pt(20, 0), Pt(0, 0)>>)

Feature(rest) == RMap(<< <<Key("type"), W("Feature")>> >> \o rest)

PointFeature ==
    Feature(<< <<Key("geometry"),
                 RMap(<< <<Key("type"), W("Point")>>,
                         <<Key("coordinates"), Pt(-30, 25)>> >>)>>,
               <<Key("properties"),
                 RMap(<< <<Key("name"), W("P")>>, <<Key("amenity"), W("a")>> >>)>> >>)

SquareFeature ==
    Feature(<< <<Key("geometry"),
                 RMap(<< <<Key("type"), W("Polygon")>>,
                         <<Key("coordinates"), RList(<<SquareRing>>)>> >>)>>,
               <<Key("properties"),
                 RMap(<< <<Key("name"), W("B")>>, <<Key("leisure"), W("park")>> >>)>> >>)

\* a Polygon with a hole: the outer ring and a second ring
TwoRingFeature ==
    Feature(<< <<Key("geometry"),
                 RMap(<< <<Key("type"), W("Polygon")>>,
                         <<Key("coordinates"),
                           RList(<< RList(<<Pt(10, 10), Pt(20, 10), Pt(20, 20), Pt(10, 10)>>),
                                    RList(<<Pt(70, 70), Pt(70, 1000), Pt(70, 70)>>) >>)>> >>)>>,
               <<Key("properties"),
                 RMap(<< <<Key("geon_type"), W("g")>>, <<Key("leisure"), W("park")>> >>)>> >>)

FeaturePool ==
    { PointFeature,
      SquareFeature,
      TwoRingFeature,
      \* tag values outside the lookup table, before and without one inside it
      Feature(<< <<Key("properties"),
                   RMap(<< <<Key("building"), W("shed")>>, <<Key("amenity"), W("school")>>,
                           <<Key("leisure"), W("park")>> >>)>> >>),
      Feature(<< <<Key("properties"),
                   RMap(<< <<Key("name"), W("A")>>,
                           <<Key("amenity"), W("constructor")>> >>)>> >>),
      \* no geometry
      Feature(<< <<Key("properties"),
                   RMap(<< <<Key("name"), W("P")>>, <<Key("building"), W("yes")>> >>)>> >>),
      \* a null geometry, null properties
      Feature(<< <<Key("geometry"), Null>>, <<Key("properties"), Null>>,
                 <<Key("id"), Num(70)>> >>),
      \* geometries without coordinates
      Feature(<< <<Key("geometry"), RMap(<< <<Key("type"), W("Point")>> >>)>>,
                 <<Key("properties"), RMap(<< <<Key("title"), W("A")>> >>)>> >>),
      Feature(<< <<Key("geometry"), RMap(<< <<Key("type"), W("Polygon")>> >>)>>,
                 <<Key("properties"), RMap(<< <<Key("name"), W("A")>> >>)>> >>),
      \* a geometry of another type
      Feature(<< <<Key("geometry"),
                   RMap(<< <<Key("type"), W("LineString")>>,
                           <<Key("coordinates"), RList(<<Pt(0, 0), Pt(20, 20)>>)>> >>)>>,
                 <<Key("properties"),
                   RMap(<< <<Key("name"), W("B")>>, <<Key("amenity"), W("a")>> >>)>> >>),
      \* a Polygon with no ring
      Feature(<< <<Key("geometry"),
                   RMap(<< <<Key("type"), W("Polygon")>>,
                           <<Key("coordinates"), EmptyList>> >>)>>,
                 <<Key("properties"), EmptyMap>> >>) }

FeatureCollection(fs) ==
    RMap(<< <<Key("type"), W("FeatureCollection")>>, <<Key("features"), RList(fs)>> >>)

FeaturesOf(j) == Get(j, Key("features")).v

(***************************************************************************)
(* The same document written in another form.                              *)
(***************************************************************************)
RECURSIVE JoinLines(_, _)
JoinLines(ls, k) ==
    IF k > Len(ls) THEN <<>>
    ELSE ls[k] \o (IF k < Len(ls) THEN <<NL>> ELSE <<>>) \o JoinLines(ls, k + 1)

\* every indent doubled: the four-space version of a two-space document
Indent4(text) ==
    LET ls == SplitLines(text)
    IN  JoinLines([k \in 1..Len(ls) |-> Spaces(indentLevel(ls[k])) \o ls[k]], 1)

ListKeys == {<<"PURPOSE">>, <<"CHARACTER">>, <<"ADJACENCIES">>, <<"SOURCE">>}

\* a top-level `KEY: v` line of a list-typed field
IsScalarListLine(l) ==
    LET kv == splitKeyValue(l)
    IN  indentLevel(l) = 0 /\ kv.ok /\ kv.key \in ListKeys /\ kv.value # <<>>

\* every top-level `KEY: v` of a list-typed field written as `KEY:` and the
\* single item line `- v` under it
ListForm(text) ==
    LET ls == SplitLines(text)
    IN  JoinLines([k \in 1..Len(ls) |->
                     IF IsScalarListLine(ls[k])
                     THEN LET kv == splitKeyValue(ls[k])
                          IN  kv.key \o <<CO, NL>> \o Spaces(2) \o Item(kv.value)
                     ELSE ls[k]], 1)

Forms == {"indent4", "listform"}

Rewrite(form, text) == IF form = "indent4" THEN Indent4(text) ELSE ListForm(text)

(***************************************************************************)
(* The engine in use: a caller composes a document or builds a place, and  *)
(* runs parse and generate on it.                                          *)
(***************************************************************************)
VARIABLES family, text, steps, pc, place, out, place2, out2, alt, altPlace,
          json, places

vars ==
    <<family, text, steps, pc, place, out, place2, out2, alt, altPlace, json, places>>

Init ==
    /\ family \in Families
    /\ text = Preamble(family)
    /\ steps = 0
    /\ pc = CASE family = "api" -> "build"
              [] family = "geojson" -> "compose"
              [] OTHER -> "edit"
    /\ place = IF family = "api" THEN PlaceVal(GeonPlace) ELSE Null
    /\ out = Null
    /\ place2 = Null
    /\ out2 = Null
    /\ alt = Null
    /\ altPlace = Null
    /\ json = IF family = "geojson" THEN FeatureCollection(<<>>) ELSE Null
    /\ places = Null

\* the caller appends a block to the document
AddBlock(b) ==
    /\ pc = "edit"
    /\ steps < MaxBlocks
    /\ text' = text \o b
    /\ steps' = steps + 1
    /\ UNCHANGED <<family, pc, place, out, place2, out2, alt, altPlace, json, places>>

\* place.f = val
SetField(f, val) ==
    /\ pc = "build"
    /\ steps < MaxBlocks
    /\ place' = PlaceVal([place.v EXCEPT ![f] = val])
    /\ steps' = steps + 1
    /\ UNCHANGED <<family, text, pc, out, place2, out2, alt, altPlace, json, places>>

\* place.f[k] = val
PutEntry(f, k, val) ==
    /\ pc = "build"
    /\ steps < MaxBlocks
    /\ place' = PlaceVal([place.v EXCEPT ![f] = MapSet(place.v[f], k, val)])
    /\ steps' = steps + 1
    /\ UNCHANGED <<family, text, pc, out, place2, out2, alt, altPlace, json, places>>

\* place.f.push(val)
PushItem(f, val) ==
    /\ pc = "build"
    /\ steps < MaxBlocks
    /\ place' = PlaceVal([place.v EXCEPT ![f] = RList(Append(place.v[f].v, val))])
    /\ steps' = steps + 1
    /\ UNCHANGED <<family, text, pc, out, place2, out2, alt, altPlace, json, places>>

\* json.features.push(f)
AddFeature(f) ==
    /\ pc = "compose"
    /\ steps < MaxFeatures
    /\ json' = FeatureCollection(Append(FeaturesOf(json), f))
    /\ steps' = steps + 1
    /\ UNCHANGED <<family, text, pc, place, out, place2, out2, alt, altPlace, places>>

\* the caller hands over one Feature in place of a collection
SingleFeature(f) ==
    /\ pc = "compose"
    /\ steps = 0
    /\ json' = f
    /\ steps' = MaxFeatures
    /\ UNCHANGED <<family, text, pc, place, out, place2, out2, alt, altPlace, places>>

\* places = fromGeoJSON(json)
Convert ==
    /\ pc = "compose"
    /\ places' = fromGeoJSON(json)
    /\ pc' = "converted"
    /\ UNCHANGED <<family, text, steps, place, out, place2, out2, alt, altPlace, json>>

\* the GeoJSON value with the first ring of its k-th feature replaced
WithRing(j, k, ring) ==
    LET set(f) ==
            MapSet(f, Key("geometry"),
                   MapSet(Get(f, Key("geometry")), Key("coordinates"),
                          RList([Get(Get(f, Key("geometry")), Key("coordinates")).v
                                     EXCEPT ![1] = ring])))
    IN  IF Get(j, Key("type")) = W("Feature") THEN set(j)
        ELSE MapSet(j, Key("features"),
                    RList([FeaturesOf(j) EXCEPT ![k] = set(FeaturesOf(j)[k])]))

\* the caller changes a returned Place: places[k].boundary.push({lat: 1, lon: 2}).
\* The push reaches the GeoJSON value when the boundary is an array of it.
MutateResult(k) ==
    /\ pc = "converted"
    /\ places.t = "list"
    /\ k \in 1..Len(places.v)
    /\ LET f == IF Get(json, Key("type")) = W("Feature") THEN json ELSE FeaturesOf(json)[k]
           ring == At(Get(Get(f, Key("geometry")), Key("coordinates")), 0)
           item == Coord(Num(10), Num(20))
       IN  /\ places' = RList([places.v EXCEPT ![k] =
                   PlaceVal([@.v EXCEPT !.boundary = RList(Append(@.v, item))])])
           /\ json' = IF ring \in keptReferences(f)
                      THEN WithRing(json, k, RList(Append(ring.v, item)))
                      ELSE json
    /\ pc' = "mutated"
    /\ UNCHANGED <<family, text, steps, place, out, place2, out2, alt, altPlace>>

\* place = parse(text)
Parse ==
    /\ pc = "edit"
    /\ place' = parse(text)
    /\ pc' = "parsed"
    /\ UNCHANGED <<family, text, steps, out, place2, out2, alt, altPlace, json, places>>

\* altPlace = parse(alt), alt being the document rewritten in another form
ParseVariant(form) ==
    /\ pc = "parsed"
    /\ alt' = [t |-> form, v |-> Rewrite(form, text)]
    /\ altPlace' = parse(alt'.v)
    /\ pc' = "compared"
    /\ UNCHANGED <<family, text, steps, place, out, place2, out2, json, places>>

\* out = generate(place)
Generate ==
    /\ pc \in {"parsed", "build"}
    /\ place.t = "place"
    /\ out' = generate(place)
    /\ pc' = "generated"
    /\ UNCHANGED <<family, text, steps, place, place2, out2, alt, altPlace, json, places>>

\* place2 = parse(out)
Reparse ==
    /\ pc = "generated"
    /\ out.t = "str"
    /\ place2' = parse(out.v)
    /\ pc' = "reparsed"
    /\ UNCHANGED <<family, text, steps, place, out, out2, alt, altPlace, json, places>>

\* out2 = generate(place2)
Regenerate ==
    /\ pc = "reparsed"
    /\ place2.t = "place"
    /\ out2' = generate(place2)
    /\ pc' = "regenerated"
    /\ UNCHANGED <<family, text, steps, place, out, place2, alt, altPlace, json, places>>

Next ==
    \/ \E b \in Pool(family) : AddBlock(b)
    \/ \E a \in ScalarAssignments : SetField(a[1], a[2])
    \/ \E a \in EntryAssignments : PutEntry(a[1], a[2], a[3])
    \/ \E a \in PushAssignments : PushItem(a[1], a[2])
    \/ \E f \in FeaturePool : AddFeature(f)
    \/ \E f \in FeaturePool : SingleFeature(f)
    \/ Convert
    \/ \E k \in 1..MaxFeatures : MutateResult(k)
    \/ Parse
    \/ \E form \in Forms : ParseVariant(form)
    \/ Generate
    \/ Reparse
    \/ Regenerate

Spec == Init /\ [][Next]_vars

(***************************************************************************)
(* Properties.                                                             *)
(***************************************************************************)
\* a value with the entries of every mapping in sorted key order: two values
\* are equal up to insertion order iff their canonical forms are equal
RECURSIVE Canon(_)
Canon(x) ==
    CASE x.t = "map" ->
            LET ks == SortKeys(ObjectKeys(x))
            IN  RMap([k \in 1..Len(ks) |-> <<ks[k], Canon(Get(x, ks[k]))>>])
      [] x.t = "list" -> RList([k \in 1..Len(x.v) |-> Canon(x.v[k])])
      [] x.t = "place" -> PlaceVal([f \in DOMAIN x.v |-> Canon(x.v[f])])
      [] OTHER -> x

SameValue(x, y) == Canon(x) = Canon(y)

\* the same value with the entries of every mapping inserted in the opposite order
RECURSIVE Reversed(_)
Reversed(x) ==
    CASE x.t = "map" ->
            RMap([k \in 1..Len(x.v) |->
                    <<x.v[Len(x.v) + 1 - k][1], Reversed(x.v[Len(x.v) + 1 - k][2])>>])
      [] x.t = "list" -> RList([k \in 1..Len(x.v) |-> Reversed(x.v[k])])
      [] x.t = "place" -> PlaceVal([f \in DOMAIN x.v |-> Reversed(x.v[f])])
      [] OTHER -> x

\* a document in the notation's own form: every line is a `key: value` pair, a
\* `key:` header or a `- item`, the first line is not indented, and a line is
\* indented deeper than the line before it only by two spaces and only under a
\* header or under a `- key: value` item
Opens(l) ==
    \/ l.content[Len(l.content)] = CO
    \/ StartsWithMarker(l.content) /\ splitKeyValue(l.content).ok

WellFormed(t) ==
    LET ls == tokenizeLines(t)
    IN  /\ Len(ls) > 0 => ls[1].indent = 0
        /\ \A k \in 1..Len(ls) :
              /\ splitKeyValue(ls[k].content).ok \/ StartsWithMarker(ls[k].content)
              /\ ls[k].indent % 2 = 0
        /\ \A k \in 2..Len(ls) :
              \/ ls[k].indent <= ls[k - 1].indent
              \/ ls[k].indent = ls[k - 1].indent + 2 /\ Opens(ls[k - 1])

\* the document opens with the name of its place
Named(t) ==
    LET ls == tokenizeLines(t)
    IN  /\ Len(ls) > 0
        /\ splitKeyValue(ls[1].content).key = <<"PLACE">>
        /\ splitKeyValue(ls[1].content).value # <<>>

\* C1: round-trip stability: for a Place p parsed from well-formed text,
\* parse(generate(p)) has the same value in every field, at every depth.
C1_RoundTrip ==
    (pc = "reparsed" /\ family # "api" /\ WellFormed(text) /\ Named(text))
        => SameValue(place2, place)

\* C2: idempotence of generation: with t = generate(p), generate(parse(t)) is
\* exactly t.
C2_Idempotent == pc = "regenerated" => out2 = out

\* the k-th smallest element of a set of integers
Nth(S, k) == CHOOSE i \in S : Cardinality({j \in S : j < i}) = k - 1

\* In a document whose first top-level field is a CONTAINS list at indent 2:
\* the lines that open an item, and the first line after an item's region.
ItemStarts(ls) ==
    {i \in 1..Len(ls) : ls[i].indent = 2 /\ StartsWithMarker(ls[i].content)}

RegionEnd(ls, i) ==
    IF \E j \in (i + 1)..Len(ls) : ls[j].indent <= 2
    THEN CHOOSE j \in (i + 1)..Len(ls) :
            /\ ls[j].indent <= 2
            /\ \A m \in (i + 1)..(j - 1) : ls[m].indent > 2
    ELSE Len(ls) + 1

\* the record written at line i, read as a document of its own: the item's text
\* as its first line and the lines under it, moved to the left margin
OwnLines(ls, i) ==
    <<[indent |-> 0, content |-> Trim(SubSeq(ls[i].content, 3, Len(ls[i].content)))]>>
    \o [k \in 1..(RegionEnd(ls, i) - i - 1) |->
            [indent |-> ls[i + k].indent - 4, content |-> ls[i + k].content]]

ExpectedChild(ls, i) ==
    LET own == OwnLines(ls, i)
    IN  IF splitKeyValue(own[1].content).ok
        THEN rawToPlace(parseBlock(own, 0, 0).val)
        ELSE PlaceVal([GeonPlace EXCEPT !.place = RStr(own[1].content)])

\* the parent's own lines: the top-level lines other than the CONTAINS header
ParentLines(ls) ==
    SelectSeq(ls, LAMBDA l : l.indent = 0 /\ l.content # Hdr("CONTAINS"))

ExpectedParent(ls) ==
    LET top == rawToPlace(parseBlock(ParentLines(ls), 0, 0).val)
        starts == ItemStarts(ls)
    IN  PlaceVal([top.v EXCEPT !.contains =
            RList([k \in 1..Cardinality(starts) |->
                      ExpectedChild(ls, Nth(starts, k))])])

\* C3: recursive containment: a CONTAINS block listing k nested records yields
\* exactly k children in document order, each holding exactly the sub-fields
\* written under its own record; the parent holds only its own fields, those
\* written after the CONTAINS block included.
C3_Containment ==
    (pc = "parsed" /\ family = "contain" /\ WellFormed(text))
        => place = ExpectedParent(tokenizeLines(text))

C3_Witness ==
    /\ pc = "parsed" /\ family = "contain" /\ WellFormed(text)
    /\ Len(place.v.contains.v) = 2
    /\ place.v.contains.v[1].v.type = W("t")
    /\ place.v.contains.v[2].v.id = W("7")
    /\ place.v.type = W("u")

\* C4: indent tolerance: the two-space document and its four-space version
\* parse to identical Places.
C4_IndentTolerance ==
    (pc = "compared" /\ alt.t = "indent4" /\ WellFormed(text))
        => altPlace = place

\* the keys of the top-level `key: value` and `key:` lines of a document
TopKeys(t) ==
    LET ls == tokenizeLines(t)
    IN  {splitKeyValue(ls[k].content).key :
            k \in {i \in 1..Len(ls) : ls[i].indent = 0 /\ splitKeyValue(ls[i].content).ok}}

RawOf(t) == parseBlock(tokenizeLines(t), 0, 0).val

\* a scalar, a list of strings or a nested mapping
IsExtraValue(x) ==
    \/ x.t = "str"
    \/ x.t = "list" /\ \A k \in 1..Len(x.v) : x.v[k].t = "str"
    \/ x.t = "map"

\* no entry of the mapping, at any depth, is a non-empty list
RECURSIVE NoListInside(_)
NoListInside(x) ==
    CASE x.t = "map" -> \A k \in 1..Len(x.v) :
                            /\ x.v[k][2].t = "list" => x.v[k][2].v = <<>>
                            /\ NoListInside(x.v[k][2])
      [] OTHER -> TRUE

ListField(p, key) ==
    CASE key = <<"PURPOSE">> -> p.purpose
      [] key = <<"CHARACTER">> -> p.character
      [] key = <<"ADJACENCIES">> -> p.adjacencies
      [] key = <<"SOURCE">> -> p.source

\* the top-level lines of a document that carry the key
LinesOf(t, key) ==
    LET ls == tokenizeLines(t)
    IN  SelectSeq(ls, LAMBDA l : l.indent = 0 /\ splitKeyValue(l.content).ok
                                 /\ splitKeyValue(l.content).key = key)

\* the field is written once, as `KEY: v`
WrittenAsScalar(t, key) ==
    /\ Len(LinesOf(t, key)) = 1
    /\ splitKeyValue(LinesOf(t, key)[1].content).value # <<>>

ScalarOf(t, key) == splitKeyValue(LinesOf(t, key)[1].content).value

ReadsAsRecord(v) == splitKeyValue(v).ok /\ splitKeyValue(v).key = <<"PLACE">>

\* C6 as stated: list/scalar promotion for every value v.
C6_Promotion_Original ==
    (pc = "compared" /\ alt.t = "listform" /\ place.t = "place" /\ altPlace.t = "place")
        => \A key \in ListKeys :
              WrittenAsScalar(text, key)
                  => /\ ListField(place.v, key) = RList(<<RStr(ScalarOf(text, key))>>)
                     /\ ListField(altPlace.v, key) = RList(<<RStr(ScalarOf(text, key))>>)

\* C6 (amended): for each list-typed field and each value v that does not read
\* as a `PLACE: ...` pair, `KEY: v` and `KEY:` followed by the single item line
\* `- v` both store the one-element list [v].
C6_Promotion ==
    (pc = "compared" /\ alt.t = "listform" /\ place.t = "place" /\ altPlace.t = "place")
        => \A key \in ListKeys :
              (WrittenAsScalar(text, key) /\ ~ReadsAsRecord(ScalarOf(text, key)))
                  => /\ ListField(place.v, key) = RList(<<RStr(ScalarOf(text, key))>>)
                     /\ ListField(altPlace.v, key) = RList(<<RStr(ScalarOf(text, key))>>)

C6_Witness ==
    /\ pc = "compared" /\ alt.t = "listform"
    /\ alt.v = Line(0, KV("PLACE", <<"P">>)) \o Line(0, Hdr("CHARACTER"))
               \o Line(2, Item(KV("k", <<"v">>)))
               \o Line(0, Hdr("SOURCE")) \o Line(2, Item(<<"a">>))
    /\ altPlace.v.character = RList(<<RStr(KV("k", <<"v">>))>>)
    /\ place.v.source = RList(<<W("a")>>)

\* a `key:` line at the left margin, and a line in the run of indented lines
\* that directly follows one
IsHeader(l) ==
    l.indent = 0 /\ splitKeyValue(l.content).ok /\ splitKeyValue(l.content).value = <<>>

RECURSIVE UnderHeader(_, _)
UnderHeader(ls, k) ==
    /\ k > 1
    /\ ls[k].indent > 0
    /\ IsHeader(ls[k - 1]) \/ UnderHeader(ls, k - 1)

\* the lines the claim says are skipped: no ':' in the line, or indented deeper
\* than the block the line stands in
Skipped(ls, k) ==
    \/ ~splitKeyValue(ls[k].content).ok
    \/ ls[k].indent > 0 /\ ~UnderHeader(ls, k)

KeptLines(ls) ==
    LET keep == {k \in 1..Len(ls) : ~Skipped(ls, k)}
    IN  [n \in 1..Cardinality(keep) |-> ls[Nth(keep, n)]]

\* text of the form 'lat, lon'
IsLatLon(v) ==
    \E a, b \in {NumLits[k][1] : k \in 1..Len(NumLits)} :
        v \in {<<a, COMMA, SP, b>>, <<a, COMMA, b>>}

\* the document without its LOCATION lines
WithoutLocation(t) ==
    SelectSeq(tokenizeLines(t),
              LAMBDA l : ~(l.indent = 0 /\ splitKeyValue(l.content).ok
                           /\ splitKeyValue(l.content).key = <<"LOCATION">>))

LastLocation(t) ==
    LET ls == LinesOf(t, <<"LOCATION">>)
    IN  splitKeyValue(ls[Len(ls)].content).value

\* the document's skipped lines leave no trace, and an unreadable LOCATION
\* leaves location null and every other field as it would be without it
Recovers(t, p) ==
    /\ p = rawToPlace(parseBlock(KeptLines(tokenizeLines(t)), 0, 0).val)
    /\ (Len(LinesOf(t, <<"LOCATION">>)) > 0 /\ ~IsLatLon(LastLocation(t)))
          => /\ p.v.location = Null
             /\ p = rawToPlace(parseBlock(WithoutLocation(t), 0, 0).val)

\* C7: permissive parsing: parse returns a Place without throwing for every
\* text; a line with no ':' and a line indented deeper than its block are
\* skipped, a LOCATION that is not 'lat, lon' leaves location null, and the
\* other fields of the document are still recovered.
C7_Permissive ==
    (pc = "parsed" /\ family = "fields")
        => place.t = "place" /\ Recovers(text, place)

\* the text supplies a name: a top-level PLACE line with text after the colon
NameSupplied(t) ==
    \E k \in 1..Len(LinesOf(t, <<"PLACE">>)) :
        splitKeyValue(LinesOf(t, <<"PLACE">>)[k].content).value # <<>>

\* C8: the Place that parse returns has a name that is a string, the empty
\* string whenever the text supplies no name (empty text, no PLACE line, or a
\* PLACE line with nothing after the colon).
C8_NameIsString ==
    (pc = "parsed" /\ place.t = "place")
        => /\ IsStr(place.v.place)
           /\ ~NameSupplied(text) => place.v.place = RStr(<<>>)

\* C9: generate returns text without throwing for every Place value, the
\* structurally invalid ones and every Place that parse can return included.
C9_GenerateTotal == pc = "generated" => out.t = "str"

\* the lines of a generated text that stand directly under the top-level
\* mapping header at line h
EntriesUnder(ls, h) ==
    {k \in (h + 1)..Len(ls) :
        /\ ls[k].indent = 2
        /\ \A m \in (h + 1)..k : ls[m].indent > 0}

\* under every top-level mapping header of the text, the entries stand in
\* ascending order of their keys
EntriesSorted(t) ==
    LET ls == tokenizeLines(t)
    IN  \A h \in 1..Len(ls) :
            (/\ IsHeader(ls[h])
             /\ splitKeyValue(ls[h].content).key \notin {<<"CONTAINS">>, <<"HISTORY">>}
             /\ h < Len(ls) /\ ~StartsWithMarker(ls[h + 1].content))
                => \A i, j \in EntriesUnder(ls, h) :
                      i < j => StrLess(splitKeyValue(ls[i].content).key,
                                       splitKeyValue(ls[j].content).key)

\* C10: deterministic generation: a Place with the same field values whose
\* mappings had their keys inserted in another order generates the identical
\* text, and the entries of every mapping are written in ascending key order.
C10_Deterministic ==
    (pc = "generated" /\ out.t = "str")
        => /\ generate(Reversed(place)) = out
           /\ generate(Canon(place)) = out
           /\ EntriesSorted(out.v)

C10_Witness ==
    /\ pc = "generated" /\ out.t = "str"
    /\ ObjectKeys(place.v.temporal) = << <<"k">>, <<"a">> >>
    /\ Reversed(place) # place
    /\ generate(Reversed(place)) = out

\* the order in which the known fields are to appear
FieldOrder ==
    << "PLACE", "TYPE", "ID", "LOCATION", "BOUNDARY", "EXTENT", "ELEVATION",
       "AREA", "PURPOSE", "EXPERIENCE", "CHARACTER", "ADJACENCIES",
       "CONNECTIVITY", "CONTAINS", "PART_OF", "VIEWSHEDS", "TEMPORAL",
       "LIFESPAN", "SOURCE", "CONFIDENCE", "UPDATED", "BUILT_FORM", "ECOLOGY",
       "INFRASTRUCTURE", "DEMOGRAPHICS", "ECONOMY", "VISUAL",
       "VERTICAL_PROFILE", "HISTORY" >>

\* the position of a key in that order; the extra fields come after all of them
OrderRank(key) ==
    IF \E i \in 1..Len(FieldOrder) : <<FieldOrder[i]>> = key
    THEN CHOOSE i \in 1..Len(FieldOrder) : <<FieldOrder[i]>> = key
    ELSE Len(FieldOrder) + 1

\* the keys of the lines of a text that stand at the left margin, in text order
TopLineKeys(t) ==
    LET ls == SelectSeq(tokenizeLines(t), LAMBDA l : l.indent = 0)
    IN  [k \in 1..Len(ls) |-> splitKeyValue(ls[k].content).key]

\* C11: canonical field order: the top-level known fields of generate's output
\* appear in the fixed order PLACE, TYPE, ID, ..., the extended groups, HISTORY,
\* each at most once, and the extra fields come last, whatever order the fields
\* were assigned in.
C11_FieldOrder ==
    (pc = "generated" /\ out.t = "str")
        => LET ks == TopLineKeys(out.v)
           IN  \A i, j \in 1..Len(ks) :
                  i < j => \/ OrderRank(ks[i]) < OrderRank(ks[j])
                           \/ /\ OrderRank(ks[i]) = Len(FieldOrder) + 1
                              /\ OrderRank(ks[j]) = Len(FieldOrder) + 1

C11_Witness ==
    /\ pc = "generated" /\ out.t = "str" /\ family = "api"
    /\ TopLineKeys(out.v) = << <<"PLACE">>, <<"TYPE">>, <<"X">> >>

\* the optional fields of a Place, each with the key generate writes it under
OptionalFields ==
    { <<"id", "ID">>, <<"location", "LOCATION">>, <<"boundary", "BOUNDARY">>,
      <<"extent", "EXTENT">>, <<"elevation", "ELEVATION">>, <<"area", "AREA">>,
      <<"purpose", "PURPOSE">>, <<"experience", "EXPERIENCE">>,
      <<"character", "CHARACTER">>, <<"adjacencies", "ADJACENCIES">>,
      <<"connectivity", "CONNECTIVITY">>, <<"contains", "CONTAINS">>,
      <<"part_of", "PART_OF">>, <<"viewsheds", "VIEWSHEDS">>,
      <<"temporal", "TEMPORAL">>, <<"lifespan", "LIFESPAN">>,
      <<"source", "SOURCE">>, <<"confidence", "CONFIDENCE">>,
      <<"updated", "UPDATED">>, <<"built_form", "BUILT_FORM">>,
      <<"ecology", "ECOLOGY">>, <<"infrastructure", "INFRASTRUCTURE">>,
      <<"demographics", "DEMOGRAPHICS">>, <<"economy", "ECONOMY">>,
      <<"visual", "VISUAL">>, <<"history", "HISTORY">>,
      <<"vertical_profile", "VERTICAL_PROFILE">> }

\* an empty list, an empty mapping or a null scalar
IsEmptyField(x) == x.t = "null" \/ (x.t \in {"list", "map"} /\ x.v = <<>>)

HasTopLine(t, key) == \E k \in 1..Len(TopLineKeys(t)) : TopLineKeys(t)[k] = <<key>>

FeaturesIn(j) ==
    IF Get(j, Key("type")) = W("Feature") THEN <<j>> ELSE FeaturesOf(j)

GeometryOf(f) == Get(f, Key("geometry"))
CoordinatesOf(f) == Get(GeometryOf(f), Key("coordinates"))

\* a Point Feature with coordinates [lon, lat]
IsPointFeature(f) ==
    /\ Get(f, Key("type")) = W("Feature")
    /\ Get(GeometryOf(f), Key("type")) = W("Point")
    /\ CoordinatesOf(f).t = "list"
    /\ Len(CoordinatesOf(f).v) = 2
    /\ \A k \in 1..2 : CoordinatesOf(f).v[k].t = "num"

\* C13: a Point Feature with coordinates [lon, lat] converts to exactly one
\* Place, whose location is {lat: coordinates[1], lon: coordinates[0]} and
\* whose boundary is empty.
C13_PointSwap ==
    (pc = "converted" /\ IsPointFeature(json))
        => /\ places.t = "list"
           /\ Len(places.v) = 1
           /\ places.v[1].v.location
                = Coord(CoordinatesOf(json).v[2], CoordinatesOf(json).v[1])
           /\ places.v[1].v.boundary = EmptyList

C13_Witness ==
    /\ pc = "converted" /\ json = PointFeature
    /\ places.v[1].v.location = Coord(Num(25), Num(-30))

\* C14: the Polygon Feature whose first ring is [[0,0],[0,2],[2,2],[2,0],[0,0]]
\* converts to a Place whose location is {lat: 1.0, lon: 1.0}.
C14_SquareCentroid ==
    (pc = "converted" /\ json = SquareFeature)
        => /\ places.t = "list"
           /\ Len(places.v) = 1
           /\ places.v[1].v.location = Coord(Num(10), Num(10))

\* C15: a FeatureCollection of n features converts to a list of n Places, the
\* i-th being the conversion of the i-th feature alone, in order and with
\* nothing merged or removed; a single Feature converts to a one-element list.
C15_Collection ==
    pc = "converted"
        => /\ places.t = "list"
           /\ Len(places.v) = Len(FeaturesIn(json))
           /\ \A i \in 1..Len(FeaturesIn(json)) :
                 fromGeoJSON(FeaturesIn(json)[i]) = RList(<<places.v[i]>>)

C15_Witness ==
    /\ pc = "converted"
    /\ Get(json, Key("type")) = W("FeatureCollection")
    /\ FeaturesOf(json) = <<PointFeature, PointFeature>>
    /\ Len(places.v) = 2
    /\ places.v[1] = places.v[2]

\* a Feature with no geometry, a null geometry, a geometry without
\* coordinates, or a geometry that is neither a Point nor a Polygon
NoUsableGeometry(f) ==
    \/ GeometryOf(f).t = "null"
    \/ CoordinatesOf(f).t = "null"
    \/ Get(GeometryOf(f), Key("type")) \notin {W("Point"), W("Polygon")}

PropertiesOf(f) == OrElse(Get(f, Key("properties")), EmptyMap)

\* C16: converter error policy: for a Feature with no usable geometry the
\* converter does not throw and returns a Place with location null and an
\* empty boundary, its name and type inferred from the properties.
C16_NoGeometry ==
    pc = "converted"
        => /\ places.t = "list"
           /\ \A i \in 1..Len(FeaturesIn(json)) :
                 NoUsableGeometry(FeaturesIn(json)[i])
                    => /\ places.v[i].v.location = Null
                       /\ places.v[i].v.boundary = EmptyList
                       /\ places.v[i].v.place = inferName(PropertiesOf(FeaturesIn(json)[i]))
                       /\ places.v[i].v.type = inferType(PropertiesOf(FeaturesIn(json)[i]))

C16_Witness ==
    /\ pc = "converted" /\ places.t = "list" /\ Len(places.v) = 2
    /\ GeometryOf(FeaturesOf(json)[1]).t = "null"
    /\ Get(GeometryOf(FeaturesOf(json)[2]), Key("type")) = W("LineString")
    /\ places.v[1].v.place = W("Unnamed") /\ places.v[1].v.location = Null
    /\ places.v[2].v.place = W("B") /\ places.v[2].v.location = Null

\* the top-level lines of a document, and those of them that open a record
TopLines(t) == SelectSeq(tokenizeLines(t), LAMBDA l : l.indent = 0)

OpensRecord(l) ==
    splitKeyValue(l.content).ok /\ splitKeyValue(l.content).key = <<"PLACE">>

\* the record a top-level line is written under: the nearest PLACE line at or
\* above it
RecordOf(ls, k) ==
    CHOOSE r \in 1..k :
        OpensRecord(ls[r]) /\ \A m \in (r + 1)..k : ~OpensRecord(ls[m])

\* the value is written for the key under the record opened at line r
WrittenUnder(ls, r, key, val) ==
    \E k \in r..Len(ls) :
        /\ RecordOf(ls, k) = r
        /\ splitKeyValue(ls[k].content).key = <<key>>
        /\ RStr(splitKeyValue(ls[k].content).value) = val

\* C17: a document of several top-level PLACE records is a collection of
\* independent Places: the Place that parse returns does not carry the name of
\* one record together with a field value written under a different record.
C17_RecordsIndependent ==
    (pc = "parsed" /\ family = "multi" /\ place.t = "place")
        => LET ls == TopLines(text)
           IN  \E r \in 1..Len(ls) :
                  /\ OpensRecord(ls[r])
                  /\ RStr(splitKeyValue(ls[r].content).value) = place.v.place
                  /\ \A fk \in {<<"type", "TYPE">>, <<"id", "ID">>, <<"area", "AREA">>} :
                        Truthy(place.v[fk[1]])
                            => WrittenUnder(ls, r, fk[2], place.v[fk[1]])

\* the text has a line of this indent and content
HasLine(t, indent, content) ==
    \E k \in 1..Len(tokenizeLines(t)) :
        tokenizeLines(t)[k] = [indent |-> indent, content |-> content]

\* C19: for every child Place in contains, generate emits `- PLACE: <name>`
\* followed by every non-empty field of the child, ID among them, indented two
\* levels deeper than the list marker.
C19_NestedComplete ==
    (pc = "generated" /\ out.t = "str")
        => \A k \in 1..Len(place.v.contains.v) :
              LET child == place.v.contains.v[k].v
              IN  /\ HasLine(out.v, 2, Item(KV("PLACE", JsString(child.place))))
                  /\ \A fk \in {<<"type", "TYPE">>, <<"id", "ID">>, <<"area", "AREA">>,
                                <<"part_of", "PART_OF">>, <<"updated", "UPDATED">>} :
                        Truthy(child[fk[1]])
                            => HasLine(out.v, 6, KV(fk[2], JsString(child[fk[1]])))

\* the list fields of a Place, each with its key
ListFields ==
    { <<"purpose", "PURPOSE">>, <<"character", "CHARACTER">>,
      <<"adjacencies", "ADJACENCIES">>, <<"source", "SOURCE">>,
      <<"viewsheds", "VIEWSHEDS">> }

\* the header `KEY:` stands at the left margin of the text, followed by one
\* `  - item` line per element, in list order
WrittenAsBlock(t, key, items) ==
    LET ls == tokenizeLines(t)
    IN  \E h \in 1..Len(ls) :
            /\ ls[h] = [indent |-> 0, content |-> Hdr(key)]
            /\ h + Len(items) <= Len(ls)
            /\ \A k \in 1..Len(items) :
                  ls[h + k] = [indent |-> 2, content |-> Item(JsString(items[k]))]

\* C20: a list field of exactly one element is written as the single scalar
\* line `KEY: value`, never as a header with a one-item block; a list of two or
\* more elements is written as a `KEY:` header followed by one `  - item` line
\* per element in list order.
C20_SingleAsScalar ==
    (pc = "generated" /\ out.t = "str")
        => \A fk \in ListFields :
              LET list == place.v[fk[1]]
              IN  list.t = "list"
                    => /\ Len(list.v) = 1
                          => /\ HasLine(out.v, 0, KV(fk[2], JsString(list.v[1])))
                             /\ ~HasLine(out.v, 0, Hdr(fk[2]))
                       /\ Len(list.v) >= 2 => WrittenAsBlock(out.v, fk[2], list.v)

EndsAtColon(l) ==
    /\ Len(l) > 0
    /\ l[Len(l)] = CO
    /\ splitKeyValue(l).ok
    /\ splitKeyValue(l).value = <<>>

HeaderFilled(ls, k) ==
    /\ k < Len(ls)
    /\ Len(Trim(ls[k + 1])) > 0
    /\ indentLevel(ls[k + 1]) > indentLevel(ls[k])

\* C21: in the output of generate every line `KEY:` with nothing after the
\* colon is immediately followed by a line indented deeper than it, at every
\* nesting level.
C21_NoEmptyHeader ==
    (pc = "generated" /\ out.t = "str")
        => LET ls == SplitLines(out.v)
           IN  \A k \in 1..Len(ls) : EndsAtColon(ls[k]) => HeaderFilled(ls, k)

\* the mapping-typed fields of a Place, each with its key
MapFields ==
    { <<"experience", "EXPERIENCE">>, <<"connectivity", "CONNECTIVITY">>,
      <<"lifespan", "LIFESPAN">>, <<"confidence", "CONFIDENCE">>,
      <<"temporal", "TEMPORAL">>, <<"built_form", "BUILT_FORM">>,
      <<"ecology", "ECOLOGY">>, <<"infrastructure", "INFRASTRUCTURE">>,
      <<"demographics", "DEMOGRAPHICS">>, <<"economy", "ECONOMY">>,
      <<"visual", "VISUAL">>, <<"vertical_profile", "VERTICAL_PROFILE">> }

\* C22: after parse every mapping-typed field holds a mapping, and it is the
\* empty mapping when the document gives the field a scalar value or a list.
C22_MappingFields ==
    (pc = "parsed" /\ place.t = "place")
        => \A fk \in MapFields :
              LET written == Get(RawOf(text), <<fk[2]>>)
              IN  /\ place.v[fk[1]].t = "map"
                  /\ written.t \in {"str", "list"} => place.v[fk[1]] = EmptyMap

\* the header `KEY:` stands at the left margin of the text, directly followed
\* by an entry line `  k: v` that is not a list item
WrittenAsMapping(t, key) ==
    LET ls == tokenizeLines(t)
    IN  \E h \in 1..(Len(ls) - 1) :
            /\ ls[h] = [indent |-> 0, content |-> Hdr(key)]
            /\ ls[h + 1].indent = 2
            /\ ~StartsWithMarker(ls[h + 1].content)
            /\ splitKeyValue(ls[h + 1].content).ok

\* C23: after parse viewsheds is a list of strings or a mapping, never a bare
\* scalar; it has the shape written in the document, and generate writes
\* VIEWSHEDS back in that shape: a list block for a list, a mapping block for
\* a mapping.
C23_ViewshedsShape ==
    (pc = "generated" /\ family # "api" /\ place.t = "place" /\ out.t = "str")
        => LET written == Get(RawOf(text), <<"VIEWSHEDS">>)
               vs == place.v.viewsheds
           IN  /\ vs.t \in {"list", "map"}
               /\ vs.t = "list" => \A k \in 1..Len(vs.v) : vs.v[k].t = "str"
               /\ written.t \in {"list", "map"} => vs = written
               /\ (vs.t = "list" /\ vs.v # <<>>)
                     => WrittenAsBlock(out.v, "VIEWSHEDS", vs.v)
               /\ (vs.t = "map" /\ vs.v # <<>>)
                     => WrittenAsMapping(out.v, "VIEWSHEDS")

\* the Place holds the value written for the key: in the field the key names,
\* or under the key in extra
Holds(p, key, value) ==
    LET single == rawToPlace(RMap(<< <<key, RStr(value)>> >>)).v
    IN  /\ p.t = "place"
        /\ \A f \in DOMAIN GeonPlace \ {"extra"} :
              single[f] # GeonPlace[f] => p.v[f] = single[f]
        /\ single.extra # EmptyMap => Get(p.v.extra, key) = RStr(value)

\* C24: a line inside a list item's region that is indented deeper than the
\* item marker but shallower than the item's first sub-field does not crash
\* parse and is not lost: it is attached to the nearest enclosing structure,
\* the item's record or the record that holds the list.
C24_InconsistentIndent ==
    (pc = "parsed" /\ family = "contain")
        => /\ place.t = "place"
           /\ LET ls == tokenizeLines(text)
                  starts == ItemStarts(ls)
              IN  \A n \in 1..Cardinality(starts) :
                     LET i == Nth(starts, n)
                     IN  \A m \in (i + 2)..(RegionEnd(ls, i) - 1) :
                            LET kv == splitKeyValue(ls[m].content)
                            IN  (ls[m].indent < ls[i + 1].indent /\ kv.ok /\ kv.value # <<>>)
                                   => \/ /\ n <= Len(place.v.contains.v)
                                         /\ Holds(place.v.contains.v[n], kv.key, kv.value)
                                      \/ Holds(place, kv.key, kv.value)

\* the sum of the i-th coordinate over the vertices listed in a ring, in tenths
VertexSum(ring, i) ==
    LET upTo[k \in 0..Len(ring.v)] ==
            IF k = 0 THEN 0 ELSE upTo[k - 1] + ring.v[k].v[i + 1].v
    IN  upTo[Len(ring.v)]

\* the number is the quotient sum / n
IsMean(x, sum, n) ==
    \/ x.t = "num" /\ x.v * n = sum
    \/ x.t = "ratio" /\ x.v[1] * n = sum * x.v[2]

IsRingFeature(f) ==
    /\ Get(GeometryOf(f), Key("type")) = W("Polygon")
    /\ CoordinatesOf(f).t = "list"
    /\ Len(CoordinatesOf(f).v) > 0
    /\ CoordinatesOf(f).v[1].t = "list"
    /\ Len(CoordinatesOf(f).v[1].v) > 0

\* C25: for a Polygon Feature with a non-empty first ring, location.lat and
\* location.lon are the sums of the lat and lon values of all n vertices
\* listed in the first ring, the closing duplicate included, divided by n;
\* later rings are ignored.
C25_RingMean ==
    (pc = "converted" /\ places.t = "list")
        => \A k \in 1..Len(places.v) :
              LET f == FeaturesIn(json)[k]
                  ring == CoordinatesOf(f).v[1]
                  loc == places.v[k].v.location
              IN  IsRingFeature(f)
                    => /\ loc.t = "coord"
                       /\ IsMean(loc.v[1], VertexSum(ring, 1), Len(ring.v))
                       /\ IsMean(loc.v[2], VertexSum(ring, 0), Len(ring.v))

C25_Witness ==
    /\ pc = "converted"
    /\ json = FeatureCollection(<<TwoRingFeature, SquareFeature>>)
    /\ places.v[1].v.location.v[2] = Num(15)
    /\ places.v[1].v.location.v[1].t = "ratio"
    /\ places.v[2].v.location = Coord(Num(8), Num(8))

\* the value is a key of the lookup table, and the entry the table has for it
InTable(val) ==
    val.t = "str" /\ \E k \in 1..Len(TYPE_MAPPING) : val.v = <<TYPE_MAPPING[k][1]>>

TableEntry(val) ==
    W(TYPE_MAPPING[CHOOSE k \in 1..Len(TYPE_MAPPING) : val.v = <<TYPE_MAPPING[k][1]>>][2])

\* the type the priority list gives: the entry of the first key, in the order
\* of the list, whose value is in the table, and 'hybrid' without one
ExpectedType(props) ==
    LET hits == {k \in 1..Len(TypeKeys) : InTable(Get(props, <<TypeKeys[k]>>))}
    IN  IF Get(props, <<"geon_type">>).t = "str" /\ Get(props, <<"geon_type">>).v # <<>>
        THEN Get(props, <<"geon_type">>)
        ELSE IF hits = {} THEN W("hybrid")
        ELSE TableEntry(Get(props, <<TypeKeys[Nth(hits, 1)]>>))

\* C26: the type is properties.geon_type when set; otherwise the lookup-table
\* entry of the first of type, building, highway, railway, leisure, amenity,
\* natural, landuse whose value is in the table, a value outside the table
\* being passed over; 'hybrid' when no key yields an entry.
C26_TypeInference ==
    (pc = "converted" /\ places.t = "list")
        => \A k \in 1..Len(places.v) :
              places.v[k].v.type = ExpectedType(PropertiesOf(FeaturesIn(json)[k]))

\* In a document t: the top-level headers `KEY:` that are written once and
\* open a list, and the item lines at indent 2 of the list a header opens
ListHeaders(ls) ==
    {h \in 1..(Len(ls) - 1) :
        /\ IsHeader(ls[h])
        /\ \A g \in 1..Len(ls) : (g # h /\ ls[g].indent = 0) =>
              splitKeyValue(ls[g].content).key # splitKeyValue(ls[h].content).key
        /\ ls[h + 1].indent = 2 /\ StartsWithMarker(ls[h + 1].content)}

ItemsUnder(ls, h) ==
    {m \in (h + 1)..Len(ls) :
        /\ ls[m].indent = 2 /\ StartsWithMarker(ls[m].content)
        /\ \A g \in (h + 1)..m : ls[g].indent >= 2}

\* an item line with no deeper line after it
IsLeafItem(ls, m) == m = Len(ls) \/ ls[m + 1].indent <= 2

ItemText(l) == Trim(SubSeq(l.content, 3, Len(l.content)))

\* what the claim says of the leaf items of document t, whose parsed Place is p
SentinelInEveryList(t, p) ==
    LET ls == tokenizeLines(t)
    IN  \A h \in ListHeaders(ls) : \A m \in ItemsUnder(ls, h) :
           LET key == splitKeyValue(ls[h].content).key
               n == Cardinality({g \in ItemsUnder(ls, h) : g <= m})
               kv == splitKeyValue(ItemText(ls[m]))
               read == Get(RawOf(t), key)
           IN  IsLeafItem(ls, m)
                 => /\ read.t = "list" /\ n <= Len(read.v)
                    /\ IF kv.ok /\ kv.key = <<"PLACE">>
                       THEN /\ read.v[n].t = "map"
                            /\ Get(read.v[n], <<"PLACE">>) = RStr(kv.value)
                            /\ \A fk \in ListFields :
                                  (key = <<fk[2]>> /\ p.v[fk[1]].t = "list")
                                     => p.v[fk[1]].v[n] # RStr(ItemText(ls[m]))
                       ELSE read.v[n] = RStr(ItemText(ls[m]))

\* C27: in every list, a leaf item `- PLACE: x` is parsed as a nested record
\* holding key PLACE, so the stored list element differs from the item's text;
\* a leaf item `- k: v` with any other key is stored as the string 'k: v'.
C27_SentinelEverywhere ==
    /\ (pc = "parsed" /\ place.t = "place") => SentinelInEveryList(text, place)
    /\ (pc = "compared" /\ altPlace.t = "place") => SentinelInEveryList(alt.v, altPlace)

C27_Witness ==
    /\ pc = "compared" /\ altPlace.t = "place"
    /\ HasLine(alt.v, 2, Item(KV("PLACE", <<"A">>)))
    /\ HasLine(alt.v, 2, Item(KV("k", <<"v">>)))
    /\ altPlace.v.purpose = RList(<<RStr(<<"[object Object]">>)>>)
    /\ altPlace.v.character = RList(<<RStr(KV("k", <<"v">>))>>)

\* the indents a block of the document can be read at
BaseIndents(ls) == UNION {{ls[k].indent, ls[k].indent + 1, ls[k].indent + 2} : k \in 1..Len(ls)}

\* the index ends a block read at baseIndent: the end of the input, or a line
\* indented less than baseIndent
EndsBlock(ls, next, baseIndent) ==
    next = Len(ls) \/ (next < Len(ls) /\ ls[next + 1].indent < baseIndent)

\* C28: parse terminates: the inner scan and collectChildren return an index
\* not below the one they were given, so that every iteration of the loops
\* moves forward; parseBlock(lines, start, baseIndent) returns nextIndex with
\* start <= nextIndex <= the number of lines, and nextIndex is the end of the
\* input or a line indented less than baseIndent.
C28_Terminates ==
    (pc = "parsed")
        => LET ls == tokenizeLines(text)
           IN  /\ place.t \in {"place", "throw"}
               /\ \A start \in 0..Len(ls) : \A b \in BaseIndents(ls) \cup {0} :
                     /\ ScanDeeper(ls, start, b) >= start
                     /\ ScanDeeper(ls, start, b) <= Len(ls)
                     /\ collectChildren(ls, start, b).next >= start
                     /\ collectChildren(ls, start, b).next <= Len(ls)
                     /\ parseBlock(ls, start, b).next >= start
                     /\ parseBlock(ls, start, b).next <= Len(ls)
                     /\ EndsBlock(ls, parseBlock(ls, start, b).next, b)

C28_Witness ==
    /\ pc = "parsed"
    /\ LET ls == tokenizeLines(text)
       IN  \E start \in 0..Len(ls) : \E b \in BaseIndents(ls) :
              /\ parseBlock(ls, start, b).next > start + 1
              /\ parseBlock(ls, start, b).next < Len(ls)
              /\ \E k \in (start + 1)..parseBlock(ls, start, b).next : ls[k].indent > b

\* the text is one numeric literal, spaces around it aside
IsNumeric(s) == Len(Trim(s)) = 1 /\ IsNumLit(Trim(s)[1])

\* the comma-separated parts of the value written for EXTENT; none when the
\* document writes no scalar EXTENT
ExtentParts(t) ==
    LET written == Get(RawOf(t), <<"EXTENT">>)
    IN  IF written.t = "str" THEN SplitComma(written.v, 1, <<>>) ELSE <<>>

\* C29: after parse, extent is null or an Extent of four numbers, none of them
\* NaN; an EXTENT value that is not four comma-separated numeric parts leaves
\* extent null.
C29_ExtentNumeric ==
    (pc = "parsed" /\ place.t = "place")
        => LET e == place.v.extent
               parts == ExtentParts(text)
           IN  /\ \/ e = Null
                  \/ e.t = "extent" /\ \A k \in 1..4 : e.v[k].t = "num"
               /\ ~(Len(parts) = 4 /\ \A k \in 1..4 : IsNumeric(parts[k])) => e = Null

====
